---------------------------- MODULE Spec2Model ----------------------------
(***************************************************************************)
(* A model of the jsonapi-ts client library: pagination arithmetic, the    *)
(* batch and incremental fetch orchestrators, and the resource identity    *)
(* map with relationship resolution.                                       *)
(*                                                                         *)
(* The module holds state machines over disjoint groups of variables.      *)
(* Each specification runs one machine and keeps the other groups at       *)
(* their idle values:                                                      *)
(*   SpecPage   pages() and advance() on a complete pagination             *)
(*   SpecFetch  getAll and getAllIncremental against a server              *)
(*   SpecMap    insertion into a ResourceMap and get                       *)
(*   SpecRelate relate* and connectOneToMany against a ResourceMap         *)
(***************************************************************************)
EXTENDS Integers, Sequences, FiniteSets, TLC

(***************************************************************************)
(* Bounds of the model.                                                    *)
(***************************************************************************)
\* largest collection size the server holds
MaxCount == 3
\* largest page size the server uses
MaxLimit == 2
\* number of non-honest responses (failures, malformed metadata) per run
MaxFaults == 1
\* saturation point of the request and step counters
MaxSteps == 7
\* number of resource ids per type
MaxIds == 1
\* longest list of References in a relationship
MaxList == 2
\* number of resource objects inserted per run of the resource map
MaxObjects == 3
\* largest number of elements in the data and in the included of a merged page
MaxPageItems == 1
\* largest number of elements in the data and in the included of a wrapped document
MaxElems == 1
\* largest number of errors in the document of a response
MaxErrors == 1
\* largest number of pages merged into one document
MaxMerges == 2

(***************************************************************************)
(* JavaScript values.  A number is [num |-> n]; undefined, null and NaN    *)
(* are distinct records, so that === and + behave as in the language.      *)
(***************************************************************************)
Num(n) == [num |-> n]
Undef == [undef |-> TRUE]
Null == [null |-> TRUE]
NaN == [nan |-> TRUE]

IsNum(x) == DOMAIN x = {"num"}

\* a + b on numbers; anything else (undefined, NaN) gives NaN
JsAdd(a, b) == IF IsNum(a) /\ IsNum(b) THEN Num(a.num + b.num) ELSE NaN

\* a === b: NaN equals nothing, undefined equals undefined
JsStrictEq(a, b) ==
    \/ IsNum(a) /\ IsNum(b) /\ a.num = b.num
    \/ a = Undef /\ b = Undef
    \/ a = Null /\ b = Null

\* a < b on values that are both numbers
JsLess(a, b) == IsNum(a) /\ IsNum(b) /\ a.num < b.num

\* truthiness: 0, NaN, undefined and null are falsy, objects are truthy
JsTruthy(x) == IF IsNum(x) THEN x.num # 0 ELSE x \notin {Undef, Null, NaN}

\* a || b
JsOr(a, b) == IF JsTruthy(a) THEN a ELSE b

\* value.toString() of a number, NaN or undefined as a URL parameter value
toString(x) == [str |-> x]

\* what a server reads back from a parameter string
ParseParam(s) == s.str

\* rounding down instead of up
Ceil_Floor(a, b) == a \div b

\* Math.ceil(a / b) for integers, b > 0
Ceil(a, b) == -((-a) \div b)

\* the integers lo, lo+1, ..., hi-1 as a sequence (empty when hi <= lo)
Range(lo, hi) == [i \in 1..(IF hi > lo THEN hi - lo ELSE 0) |-> lo + i - 1]

RECURSIVE Flatten(_)
Flatten(ss) == IF ss = <<>> THEN <<>> ELSE Head(ss) \o Flatten(Tail(ss))

Min(a, b) == IF a < b THEN a ELSE b

(***************************************************************************)
(* Pagination (framework/document/index.ts, second half).                  *)
(***************************************************************************)
TypeError == [error |-> "TypeError"]

\* PartialDocumentPagination constructor: page('offset', offset) always,
\* page('limit', limit) only when the limit is truthy; page() calls
\* value.toString(), which throws on undefined and null
PartialDocumentPagination(offset, limit) ==
    IF offset \in {Undef, Null} THEN TypeError
    ELSE [offset |-> offset, limit |-> limit, count |-> Undef,
          params |-> [offset |-> toString(offset),
                      limit  |-> IF JsTruthy(limit) THEN toString(limit) ELSE Undef]]

\* DocumentPagination constructor: super(offset), then the two fields
DocumentPagination(offset, limit, count) ==
    IF offset \in {Undef, Null} THEN TypeError
    ELSE [PartialDocumentPagination(offset, Undef) EXCEPT !.limit = limit, !.count = count]

\* pagination(offset = 0, limit?)
pagination(offset, limit) == PartialDocumentPagination(offset, limit)

\* advance that ends only once offset + by has passed the count
advance_EndPastCount(p, by, limit) ==
    IF JsLess(p.count, JsAdd(p.offset, by))
    THEN Undef
    ELSE DocumentPagination(JsAdd(p.offset, by), JsOr(limit, p.limit), p.count)

\* advance that keeps the current limit whatever limit it is given
advance_KeepLimit(p, by, limit) ==
    IF JsStrictEq(JsAdd(p.offset, by), p.count)
    THEN Undef
    ELSE DocumentPagination(JsAdd(p.offset, by), p.limit, p.count)

\* advance that skips one item more than it was told
advance_SkipOne(p, by, limit) ==
    IF JsStrictEq(JsAdd(p.offset, by), p.count)
    THEN Undef
    ELSE DocumentPagination(JsAdd(JsAdd(p.offset, by), Num(1)), JsOr(limit, p.limit), p.count)

\* DocumentPagination.advance(by, limit?)
advance(p, by, limit) ==
    IF JsStrictEq(JsAdd(p.offset, by), p.count)
    THEN Undef
    ELSE DocumentPagination(JsAdd(p.offset, by), JsOr(limit, p.limit), p.count)

\* a loop that runs while i <= Math.ceil((count - retrieved) / limit)
PagesLoopCount_OneMore(p, retrieved) ==
    IF IsNum(p.count) /\ IsNum(p.limit) /\ p.limit.num > 0
    THEN LET n == Ceil(p.count.num - retrieved, p.limit.num) + 1 IN IF n > 0 THEN n ELSE 0
    ELSE 0

\* number of iterations of the loop in pages(): i < Math.ceil((count - retrieved) / limit);
\* a comparison with NaN is false, so a non-numeric field gives no iteration
PagesLoopCount(p, retrieved) ==
    IF IsNum(p.count) /\ IsNum(p.limit) /\ p.limit.num > 0
    THEN LET n == Ceil(p.count.num - retrieved, p.limit.num) IN IF n > 0 THEN n ELSE 0
    ELSE 0

\* pages() that forgets the items already retrieved
pages_IgnoreRetrieved(p, retrieved) ==
    [i \in 1..PagesLoopCount(p, retrieved) |->
        pagination(JsAdd(p.offset, Num((i - 1) * p.limit.num)), Undef)]

\* pages(p, retrieved)
pages(p, retrieved) ==
    [i \in 1..PagesLoopCount(p, retrieved) |->
        pagination(JsAdd(JsAdd(p.offset, Num(retrieved)), Num((i - 1) * p.limit.num)), Undef)]

(***************************************************************************)
(* Documents and the wire (schema.ts, framework/document/index.ts,         *)
(* framework/default/convenience.ts, model/registry).                      *)
(***************************************************************************)
\* an array-valued field that may be absent: Undef, or [items |-> <<...>>]
Arr(s) == [items |-> s]

\* the status every read expects
StatusOk == 200
\* a status no read expects
StatusBad == StatusOk + 204
\* the status create and update expect
StatusCreated == 201
\* the status delete expects
StatusNoContent == 204

\* resource types with a registered model factory
Registered == {"articles", "authors"}

Fulfilled(v) == [ok |-> TRUE, value |-> v]
Rejected(r) == [ok |-> FALSE, reason |-> r]
Pending == [pending |-> TRUE]

\* typeof x === 'object': objects, arrays and null
TypeofObject(x) == x # Undef /\ x # NaN /\ ~IsNum(x) /\ "str" \notin DOMAIN x

\* o[f], undefined when the object has no such field
Field(o, f) == IF f \in DOMAIN o THEN o[f] ELSE Undef

\* DocumentPagination.fromMeta(meta).  typeof null is 'object', so a null meta
\* reaches meta.hasOwnProperty and a null pagination reaches p.offset.
fromMeta(meta) ==
    IF ~TypeofObject(meta) THEN Undef
    ELSE IF meta = Null THEN TypeError
    ELSE IF "pagination" \notin DOMAIN meta THEN Undef
    ELSE IF ~TypeofObject(meta.pagination) THEN Undef
    ELSE IF meta.pagination = Null THEN TypeError
    ELSE LET p == meta.pagination IN
         DocumentPagination(Field(p, "offset"), Field(p, "limit"), Field(p, "count"))

\* status() that rejects with a message of its own
status_GenericMessage(expected, response) ==
    IF response.status # expected
    THEN Rejected([error |-> "unexpected status", status |-> response.status])
    ELSE Fulfilled(response.document)

\* status() that lets every response through
status_Lenient(expected, response) == Fulfilled(response.document)

\* status(expected)(response)
status(expected, response) ==
    IF response.status # expected
    THEN Rejected(response.document.errors)
    ELSE Fulfilled(response.document)

\* registry.wrapAll(resources): throws on the first element without a factory
registryWrapAll(resources) ==
    IF \E i \in 1..Len(resources) : resources[i].type \notin Registered
    THEN Rejected([error |-> "no factory"])
    ELSE Fulfilled(resources)

\* ManyDocument.wrap(raw, model): bind() wraps `included` through the registry,
\* data goes through the model factory
ManyDocumentWrap(raw) ==
    LET inc == IF raw.included = Undef THEN Fulfilled(<<>>)
               ELSE registryWrapAll(raw.included.items) IN
    IF ~inc.ok THEN inc
    ELSE Fulfilled([data |-> raw.data, included |-> raw.included, meta |-> raw.meta])

\* getMany after send(): .then(status(200)).then(wrap)
getMany(response) ==
    IF ~response.transport THEN Rejected([error |-> "transport"])
    ELSE LET s == status(StatusOk, response) IN
         IF ~s.ok THEN s ELSE ManyDocumentWrap(s.value)

\* merge that adopts the only element of the other data, not the array, when
\* the receiver has no data yet
merge_Unwrap(this, other) ==
    [this EXCEPT
       !.data = IF other.data = Undef THEN this.data
                ELSE IF this.data = Undef
                THEN (IF Len(other.data.items) = 1 THEN other.data.items[1] ELSE other.data)
                ELSE Arr(this.data.items \o other.data.items),
       !.included = IF other.included = Undef THEN this.included
                    ELSE IF this.included = Undef THEN other.included
                    ELSE Arr(this.included.items \o other.included.items)]

\* merge that takes the other document's data and forgets its included
merge_DropIncluded(this, other) ==
    [this EXCEPT
       !.data = IF other.data = Undef THEN this.data
                ELSE IF this.data = Undef THEN other.data
                ELSE Arr(this.data.items \o other.data.items)]

\* merge that puts the other document first
merge_Prepend(this, other) ==
    [this EXCEPT
       !.data = IF other.data = Undef THEN this.data
                ELSE IF this.data = Undef THEN other.data
                ELSE Arr(other.data.items \o this.data.items),
       !.included = IF other.included = Undef THEN this.included
                    ELSE IF this.included = Undef THEN other.included
                    ELSE Arr(other.included.items \o this.included.items)]

\* Document.merge(other): the receiver after the call
merge(this, other) ==
    [this EXCEPT
       !.data = IF other.data = Undef THEN this.data
                ELSE IF this.data = Undef THEN other.data
                ELSE Arr(this.data.items \o other.data.items),
       !.included = IF other.included = Undef THEN this.included
                    ELSE IF this.included = Undef THEN other.included
                    ELSE Arr(this.included.items \o other.included.items)]

\* a forEach that leaves out the last page
RECURSIVE mergeAll_SkipLast(_, _)
mergeAll_SkipLast(document, results) ==
    IF Len(results) <= 1 THEN document
    ELSE mergeAll_SkipLast(merge(document, Head(results)), Tail(results))

\* results.forEach(page => document.merge(page))
RECURSIVE mergeAll(_, _)
mergeAll(document, results) ==
    IF results = <<>> THEN document
    ELSE mergeAll(merge(document, Head(results)), Tail(results))

\* Promise.all that hands the results over in the order they arrived
PromiseAll_ArrivalOrder(outcomes, arrival) ==
    [i \in 1..Len(arrival) |-> outcomes[arrival[i]].value]

\* Promise.all(promises): the results in the order of the promises
PromiseAll(outcomes, arrival) ==
    [i \in 1..Len(outcomes) |-> outcomes[i].value]

(***************************************************************************)
(* State.                                                                  *)
(***************************************************************************)
VARIABLES
    pgP,          \* the complete pagination under test
    pgRetrieved,  \* items the first page returned
    pgCalled,     \* whether pages() has been called
    pgPages,      \* result of pages(pgP, pgRetrieved)
    pgCur,        \* pagination the advance chain stands on
    pgBy,         \* items of the window pgCur describes
    pgChain,      \* windows handed out by advance so far
    pgPc,         \* "run" while advance still hands out pages, then "end"
    pgCall        \* a single call of advance or pages on pgP: arguments and result

pageVars == <<pgP, pgRetrieved, pgCalled, pgPages, pgCur, pgBy, pgChain, pgPc, pgCall>>

VARIABLES
    mode,         \* which fetches the caller runs: "getAll", "getAllIncremental", "both"
    srvCount0,    \* size of the collection when the fetches started
    srvCount,     \* size of the collection now
    srvLimit,     \* page size of the server
    faults,       \* non-honest responses handed out so far
    \* getAll
    bPc,          \* "init", "first", "rest", "resolved", "rejected"
    bFirstDoc,    \* the first page's document, Undef before it arrived
    bReqs,        \* the remaining pages requested, in enumeration order
    bOut,         \* outcome of each remaining request, Pending until answered
    bArrival,     \* indices of the remaining requests in order of arrival
    bResult,      \* the document getAll resolved with
    bFailed,      \* a page request of getAll failed
    bFault,       \* kind of the first page's response
    bClean,       \* every response getAll consumed was honest
    \* getAllIncremental
    iPc,          \* "init", "waiting", "chain", "resolved", "rejected"
    iInflight,    \* requests issued and not yet answered
    iFirst,       \* the request in flight is the first page's
    iNext,        \* pagination of the continuation the last handler returned
    iData,        \* data of all step notifications, concatenated
    iSteps,       \* number of step notifications (saturates at MaxSteps)
    iIssued,      \* number of requests issued (saturates at MaxSteps)
    iFailed,      \* a page request of getAllIncremental failed
    iFault,       \* kind of the last response handled
    iClean,       \* every response getAllIncremental consumed was honest
    iLog          \* what the caller and the wire saw of getAllIncremental, in order

srvVars == <<mode, srvCount0, srvCount, srvLimit, faults>>
batchVars == <<bPc, bFirstDoc, bReqs, bOut, bArrival, bResult, bFailed, bFault, bClean>>
incVars == <<iPc, iInflight, iFirst, iNext, iData, iSteps, iIssued, iFailed, iFault, iClean,
             iLog>>
fetchVars == <<srvVars, batchVars, incVars>>

VARIABLES
    caches,       \* ResourceMap.caches: type -> Undef or [entries |-> id -> resource, keys]
    lastPut,      \* identity -> the resource inserted last under it (Undef if none)
    homog,        \* every putAllOfType list so far held resources of one type
    replaced,     \* some insertion met an identity inserted before with another resource
    inserted,     \* number of resource objects inserted so far
    rel,          \* the holder's relationship: [kind, data] with References in data
    backRefs,     \* resources whose back-reference field points at the holder
    err,          \* error the last operation raised, "none" if it returned
    lastOp,       \* the last operation: its name, whether a callback / field was given
    cbArgs,       \* arguments the map callback was invoked with by the last operation
    resolves,     \* relate calls since the map or the relationship last changed otherwise
    relOnce       \* the relationship as the first of those relate calls left it

mapVars == <<caches, lastPut, homog, replaced, inserted, rel, backRefs, err, lastOp, cbArgs,
             resolves, relOnce>>

VARIABLES
    mPages,       \* the pages handed to merge and combine, as they were given
    mLeft,        \* outcome of (p1.merge(p2)).merge(p3)
    mRight,       \* outcome of p1.merge(p2.merge(p3))
    mCombined     \* outcome of combine on the first n pages, and what became of them

mergeVars == <<mPages, mLeft, mRight, mCombined>>

VARIABLES
    registered,        \* ModelRegistry.registered: type -> entry, Undef when absent
    legacyRegistered,  \* Resource.registered: the types with a constructor
    wCall              \* the last wrap call: what was wrapped and what came of it

wrapVars == <<registered, legacyRegistered, wCall>>

VARIABLES
    opCall             \* the last single-request operation: its response and outcome

writeVars == <<opCall>>

VARIABLES
    doc,       \* a document under construction: its cardinality, data and included
    pwCall,    \* the last call of ParameterWrapper.with
    mHeap,     \* the arrays of merged documents, by address
    rsCall     \* the last wrap or rewrap of a relationship

moreVars == <<doc, pwCall, mHeap, rsCall>>

libVars == <<mergeVars, wrapVars, writeVars, moreVars>>

vars == <<pageVars, fetchVars, mapVars, libVars>>

(***************************************************************************)
(* The server: a collection of srvCount items (ids 1..srvCount) served in  *)
(* pages of srvLimit items.  Concurrent writers may delete items while a   *)
(* fetch runs.  A response is honest, a failure, or honest data with       *)
(* malformed pagination metadata.                                          *)
(***************************************************************************)
\* responses that make the page request fail
FailureKinds == {"transport", "status", "statusBare", "unregistered"}
\* responses with honest data whose pagination metadata is absent or malformed
MalformedKinds == {"metaAbsent", "metaNull", "noPagination", "paginationNull",
                   "paginationString", "paginationEmpty", "paginationNoCount"}
FaultKinds == FailureKinds \cup MalformedKinds

\* meta of a response of kind `kind` for the window at offset o
ServerMeta(kind, o) ==
    CASE kind = "metaAbsent" -> Undef
      [] kind = "metaNull" -> Null
      [] kind = "noPagination" -> [total |-> Num(srvCount)]
      [] kind = "paginationNull" -> [pagination |-> Null]
      [] kind = "paginationString" -> [pagination |-> [str |-> "none"]]
      [] kind = "paginationEmpty" ->
            [pagination |-> [offset |-> Undef, limit |-> Undef, count |-> Undef]]
      [] kind = "paginationNoCount" ->
            [pagination |-> [offset |-> Num(o), limit |-> Num(srvLimit),
                             count |-> Undef]]
      [] OTHER ->
            [pagination |-> [offset |-> Num(o), limit |-> Num(srvLimit),
                             count |-> Num(srvCount)]]

\* the response to request `req` (a pagination) when the server answers in kind
\* `kind`; a page[offset] that is no number is answered with a bad status
ServerResponse(req, kind) ==
    LET o == ParseParam(req.params.offset)
        items == IF IsNum(o) THEN Range(o.num + 1, Min(o.num + srvLimit, srvCount) + 1)
                 ELSE <<>>
        side == IF kind = "unregistered" THEN <<[type |-> "comments", id |-> 1]>>
                ELSE <<[type |-> "authors", id |-> 1]>>
        bad == kind \in {"status", "statusBare"} \/ ~IsNum(o) IN
    [transport |-> kind # "transport",
     status |-> IF bad THEN StatusBad ELSE StatusOk,
     document |->
        [data |-> IF bad THEN Undef ELSE Arr(items),
         included |-> IF bad \/ (items = <<>> /\ kind # "unregistered") THEN Undef
                      ELSE Arr(side),
         meta |-> IF bad THEN Undef ELSE ServerMeta(kind, IF IsNum(o) THEN o.num ELSE 0),
         errors |-> IF bad /\ kind # "statusBare" THEN Arr(<<"not found">>) ELSE Undef]]

\* the kinds of response the server may still give; when both fetches run
\* they are served the same honest pages
Kinds == {"honest"} \cup (IF mode # "both" /\ faults < MaxFaults THEN FaultKinds ELSE {})

Spend(kind) == IF kind = "honest" THEN faults ELSE faults + 1

\* whether answering `req` in kind `kind` makes the page request fail
IsFailure(req, kind) == kind \in FailureKinds \/ ~IsNum(ParseParam(req.params.offset))

FetchInit ==
    /\ mode \in {"getAll", "getAllIncremental", "both"}
    /\ srvCount0 \in 0..MaxCount
    /\ srvCount = srvCount0
    /\ srvLimit \in 1..MaxLimit
    /\ faults = 0
    /\ bPc = "init" /\ bFirstDoc = Undef /\ bReqs = <<>> /\ bOut = <<>>
    /\ bArrival = <<>> /\ bResult = Undef /\ bFailed = FALSE /\ bFault = "none"
    /\ bClean = TRUE
    /\ iPc = "init" /\ iInflight = <<>> /\ iFirst = TRUE /\ iNext = Undef
    /\ iData = <<>> /\ iSteps = 0 /\ iIssued = 0 /\ iFailed = FALSE
    /\ iFault = "none" /\ iClean = TRUE /\ iLog = <<>>

FetchIdle ==
    /\ mode = "both"
    /\ srvCount0 = 0 /\ srvCount = 0 /\ srvLimit = 1 /\ faults = 0
    /\ bPc = "resolved" /\ bFirstDoc = Undef /\ bReqs = <<>> /\ bOut = <<>>
    /\ bArrival = <<>> /\ bResult = Undef /\ bFailed = FALSE /\ bFault = "none"
    /\ bClean = TRUE
    /\ iPc = "resolved" /\ iInflight = <<>> /\ iFirst = TRUE /\ iNext = Undef
    /\ iData = <<>> /\ iSteps = 0 /\ iIssued = 0 /\ iFailed = FALSE
    /\ iFault = "none" /\ iClean = TRUE /\ iLog = <<>>

\* a concurrent writer deletes the last item while a fetch is under way
Delete ==
    /\ mode # "both"
    /\ srvCount > 0
    /\ bPc \in {"first", "rest"} \/ iPc \in {"waiting", "chain"}
    /\ srvCount' = srvCount - 1
    /\ UNCHANGED <<libVars, pageVars, mapVars, mode, srvCount0, srvLimit, faults, batchVars, incVars>>

(***************************************************************************)
(* The pagination machine: pages() and the chain of advance() calls on one *)
(* complete pagination.                                                    *)
(***************************************************************************)
\* items of the window that starts at pagination q when the limit is `limit`
\* and the collection holds `count` items: [start, min(start + limit, count))
WindowItems(q, limit, count) ==
    Range(q.offset.num, Min(q.offset.num + limit, count))

PageInit ==
    /\ \E count \in 0..MaxCount, limit \in 1..MaxLimit :
       \E offset \in 0..count :
          /\ pgP = DocumentPagination(Num(offset), Num(limit), Num(count))
          /\ pgRetrieved \in 0..Min(limit, count - offset)
    /\ pgCalled = FALSE
    /\ pgPages = <<>>
    /\ pgCur = pgP
    /\ pgBy = pgRetrieved
    /\ pgChain = <<>>
    /\ pgPc = "run"
    /\ pgCall = [fn |-> "none"]

PageIdle ==
    /\ pgP = DocumentPagination(Num(0), Num(1), Num(0))
    /\ pgRetrieved = 0
    /\ pgCalled = FALSE
    /\ pgPages = <<>>
    /\ pgCur = pgP
    /\ pgBy = 0
    /\ pgChain = <<>>
    /\ pgPc = "end"
    /\ pgCall = [fn |-> "none"]

\* call pages(pgP, pgRetrieved)
PgPages ==
    /\ ~pgCalled
    /\ pgCalled' = TRUE
    /\ pgPages' = pages(pgP, pgRetrieved)
    /\ UNCHANGED <<pgP, pgRetrieved, pgCur, pgBy, pgChain, pgPc, pgCall>>
    /\ UNCHANGED <<fetchVars, mapVars, libVars>>

\* call advance on the current pagination with the size of its window
PgAdvance ==
    /\ pgPc = "run"
    /\ Len(pgChain) < MaxSteps
    /\ LET np == advance(pgCur, Num(pgBy), Undef) IN
         IF np = Undef
         THEN /\ pgPc' = "end"
              /\ UNCHANGED <<pgCur, pgBy, pgChain>>
         ELSE /\ pgCur' = np
              /\ pgBy' = Len(WindowItems(np, pgP.limit.num, pgP.count.num))
              /\ pgChain' = Append(pgChain, np)
              /\ pgPc' = "run"
    /\ UNCHANGED <<pgP, pgRetrieved, pgCalled, pgPages, pgCall>>
    /\ UNCHANGED <<fetchVars, mapVars, libVars>>

\* call pgP.advance(by, limit) with any amount and with or without a limit
PgAdvanceBy ==
    /\ pgCall.fn = "none"
    /\ \E by \in 0..MaxCount, limit \in {Undef} \cup {Num(l) : l \in 0..MaxLimit} :
         pgCall' = [fn |-> "advance", by |-> by, limit |-> limit,
                    out |-> advance(pgP, Num(by), limit)]
    /\ UNCHANGED <<pgP, pgRetrieved, pgCalled, pgPages, pgCur, pgBy, pgChain, pgPc>>
    /\ UNCHANGED <<fetchVars, mapVars, libVars>>

\* call pages(pgP, retrieved) with any number of retrieved items
PgPagesOf ==
    /\ pgCall.fn = "none"
    /\ \E retrieved \in 0..(MaxCount + 1) :
         pgCall' = [fn |-> "pages", retrieved |-> retrieved,
                    out |-> pages(pgP, retrieved)]
    /\ UNCHANGED <<pgP, pgRetrieved, pgCalled, pgPages, pgCur, pgBy, pgChain, pgPc>>
    /\ UNCHANGED <<fetchVars, mapVars, libVars>>

(***************************************************************************)
(* getAll (framework/api.ts): the first page, then every remaining page    *)
(* at once, merged when all have arrived.                                  *)
(***************************************************************************)
\* a first-page handler that requests only the next page
getAllFirst_NextOnly(out) ==
    IF ~out.ok THEN [do |-> "reject", reqs |-> <<>>]
    ELSE LET p == fromMeta(out.value.meta) IN
         IF p = TypeError THEN [do |-> "reject", reqs |-> <<>>]
         ELSE IF p = Undef THEN [do |-> "resolve", reqs |-> <<>>]
         ELSE IF JsStrictEq(p.offset, p.count) THEN [do |-> "resolve", reqs |-> <<>>]
         ELSE IF out.value.data = Undef THEN [do |-> "reject", reqs |-> <<>>]
         ELSE LET ps == pages(p, Len(out.value.data.items)) IN
              [do |-> "request", reqs |-> SubSeq(ps, 1, Min(1, Len(ps)))]

\* getAll's handler of the first page: what the orchestration does next.
\* "resolve" with the document, "reject", or "request" the pages listed.
getAllFirst(out) ==
    IF ~out.ok THEN [do |-> "reject", reqs |-> <<>>]
    ELSE LET p == fromMeta(out.value.meta) IN
         IF p = TypeError THEN [do |-> "reject", reqs |-> <<>>]
         ELSE IF p = Undef THEN [do |-> "resolve", reqs |-> <<>>]
         ELSE IF JsStrictEq(p.offset, p.count) THEN [do |-> "resolve", reqs |-> <<>>]
         ELSE IF out.value.data = Undef THEN [do |-> "reject", reqs |-> <<>>]
         ELSE [do |-> "request", reqs |-> pages(p, Len(out.value.data.items))]

\* getAll is called: getMany(url, model, q) requests the default pagination()
BStart ==
    /\ mode \in {"getAll", "both"}
    /\ bPc = "init"
    /\ bPc' = "first"
    /\ UNCHANGED <<libVars, pageVars, mapVars, srvVars, incVars, bFirstDoc, bReqs, bOut, bArrival, bResult,
                   bFailed, bFault, bClean>>

\* the first page's response arrives and getAll's handler runs
BFirst ==
    /\ bPc = "first"
    /\ \E kind \in Kinds, req \in {pagination(Num(0), Undef)} :
       \E out \in {getMany(ServerResponse(req, kind))} :
       \E h \in {getAllFirst(out)} :
         /\ faults' = Spend(kind)
         /\ bFault' = kind
         /\ bFailed' = IsFailure(req, kind)
         /\ bClean' = (kind = "honest")
         /\ bFirstDoc' = IF out.ok THEN out.value ELSE Undef
         /\ bReqs' = h.reqs
         /\ bOut' = [i \in 1..Len(h.reqs) |-> Pending]
         /\ bPc' = CASE h.do = "reject" -> "rejected"
                     [] h.do = "resolve" -> "resolved"
                     [] OTHER -> "rest"
         /\ bResult' = IF h.do = "resolve" THEN out.value ELSE Undef
    /\ UNCHANGED <<libVars, pageVars, mapVars, mode, srvCount0, srvCount, srvLimit, incVars, bArrival>>

\* the response to one of the remaining requests arrives; Promise.all rejects
\* as soon as one of its promises rejects
BRest ==
    /\ bPc = "rest"
    /\ \E i \in 1..Len(bReqs), kind \in Kinds :
       \E out \in {getMany(ServerResponse(bReqs[i], kind))} :
         /\ bOut[i] = Pending
         /\ faults' = Spend(kind)
         /\ bOut' = [bOut EXCEPT ![i] = out]
         /\ bArrival' = Append(bArrival, i)
         /\ bFailed' = (bFailed \/ IsFailure(bReqs[i], kind))
         /\ bClean' = (bClean /\ kind = "honest")
         /\ bPc' = IF out.ok THEN "rest" ELSE "rejected"
    /\ UNCHANGED <<libVars, pageVars, mapVars, mode, srvCount0, srvCount, srvLimit, incVars, bFirstDoc, bReqs,
                   bResult, bFault>>

\* every remaining request is answered: Promise.all's handler merges the pages
\* into the first document and getAll resolves with it
BMerge ==
    /\ bPc = "rest"
    /\ \A i \in 1..Len(bReqs) : bOut[i] # Pending
    /\ bResult' = mergeAll(bFirstDoc, PromiseAll(bOut, bArrival))
    /\ bPc' = "resolved"
    /\ UNCHANGED <<libVars, pageVars, mapVars, srvVars, incVars, bFirstDoc, bReqs, bOut, bArrival, bFailed,
                   bFault, bClean>>

(***************************************************************************)
(* getAllIncremental (framework/api.ts): one page at a time, each handed   *)
(* to the caller through step() before the next is requested.              *)
(***************************************************************************)
\* a page handler that treats a failed request as the end of the collection
incrementalPage_Swallow(out) ==
    IF ~out.ok THEN [stepped |-> FALSE, do |-> "resolve", np |-> Undef]
    ELSE LET fp == fromMeta(out.value.meta) IN
         IF fp = TypeError THEN [stepped |-> TRUE, do |-> "throw", np |-> Undef]
         ELSE IF fp # Undef /\ out.value.data = Undef
              THEN [stepped |-> TRUE, do |-> "throw", np |-> Undef]
         ELSE LET np == IF fp = Undef THEN Undef
                        ELSE advance(fp, Num(Len(out.value.data.items)), Undef) IN
              IF np = Undef THEN [stepped |-> TRUE, do |-> "resolve", np |-> Undef]
              ELSE [stepped |-> TRUE, do |-> "continue", np |-> np]

\* the handler of a page in getAllIncremental and getRestIncremental:
\* step(page), then resolve() or return the continuation for the next page.
\* "throw" stands for a rejected getMany or an exception in the handler
\* (a TypeError of fromMeta, or of page.data.length when data is undefined).
incrementalPage(out) ==
    IF ~out.ok THEN [stepped |-> FALSE, do |-> "throw", np |-> Undef]
    ELSE LET fp == fromMeta(out.value.meta) IN
         IF fp = TypeError THEN [stepped |-> TRUE, do |-> "throw", np |-> Undef]
         ELSE IF fp # Undef /\ out.value.data = Undef
              THEN [stepped |-> TRUE, do |-> "throw", np |-> Undef]
         ELSE LET np == IF fp = Undef THEN Undef
                        ELSE advance(fp, Num(Len(out.value.data.items)), Undef) IN
              IF np = Undef THEN [stepped |-> TRUE, do |-> "resolve", np |-> Undef]
              ELSE [stepped |-> TRUE, do |-> "continue", np |-> np]

\* a continuation that requests its page twice
restRequests_Twice(np) == <<np, np>>

\* the requests a continuation issues when IncrementalPromise invokes it:
\* getRestIncremental(url, model, q, np) calls getMany once
restRequests(np) == <<np>>

\* what IncrementalPromise does with the promise a callback returned: a
\* rejection rejects the incremental promise, a continuation is invoked next
incrementalPromiseSettle(h) ==
    CASE h.do = "throw" -> "rejected"
      [] h.do = "resolve" -> "resolved"
      [] OTHER -> "chain"

\* the log entry of a request sent for pagination req
Requested(req) == [ev |-> "request", offset |-> req.offset]

\* the log entry of the response to a request: whether getMany fulfilled
Responded(out) == [ev |-> "response", ok |-> out.ok]

\* number of items of a wrapped page
PageSize(out) == IF out.value.data = Undef THEN 0 ELSE Len(out.value.data.items)

\* a handler that settles before it hands the page to step
pageEvents_StepLast(req, out, h, settled) ==
    (IF settled \in {"resolved", "rejected"} THEN <<[ev |-> settled]>> ELSE <<>>)
    \o (IF h.stepped
        THEN <<[ev |-> "step", offset |-> req.offset, size |-> PageSize(out)]>>
        ELSE <<>>)

\* what the caller sees of the handler of one page, in order: step(page) is
\* the handler's first statement, resolve() or the rejection come after it
pageEvents(req, out, h, settled) ==
    (IF h.stepped
     THEN <<[ev |-> "step", offset |-> req.offset, size |-> PageSize(out)]>>
     ELSE <<>>)
    \o (IF settled \in {"resolved", "rejected"} THEN <<[ev |-> settled]>> ELSE <<>>)

\* the log is kept for the requests before the counters saturate
Logged(log, n, events) == IF n < MaxSteps THEN log \o events ELSE log

\* getAllIncremental is called: the constructor invokes the first callback
IStart ==
    /\ mode \in {"getAllIncremental", "both"}
    /\ iPc = "init"
    /\ iInflight' = <<pagination(Num(0), Undef)>>
    /\ iFirst' = TRUE
    /\ iIssued' = 1
    /\ iPc' = "waiting"
    /\ iLog' = <<Requested(pagination(Num(0), Undef))>>
    /\ UNCHANGED <<libVars, pageVars, mapVars, srvVars, batchVars, iNext, iData, iSteps, iFailed, iFault, iClean>>

\* the response to a request in flight arrives and its handler runs; after the
\* first page a failure reaches reject through .catch(reject)
IRespond ==
    /\ iPc = "waiting"
    /\ \E k \in 1..Len(iInflight), kind \in Kinds :
       \E req \in {iInflight[k]} :
       \E out \in {getMany(ServerResponse(req, kind))} :
       \E h \in {incrementalPage(out)} :
       \E settled \in {IF iFirst THEN incrementalPromiseSettle(h)
                        ELSE CASE h.do = "throw" -> "rejected"
                               [] h.do = "resolve" -> "resolved"
                               [] OTHER -> "chain"} :
         /\ faults' = Spend(kind)
         /\ iInflight' = [j \in 1..(Len(iInflight) - 1) |->
                            IF j < k THEN iInflight[j] ELSE iInflight[j + 1]]
         /\ iFault' = kind
         /\ iFailed' = (iFailed \/ IsFailure(req, kind))
         /\ iClean' = (iClean /\ kind = "honest")
         /\ iData' = IF h.stepped /\ out.value.data # Undef
                     THEN iData \o out.value.data.items ELSE iData
         /\ iSteps' = IF h.stepped THEN Min(iSteps + 1, MaxSteps) ELSE iSteps
         /\ iNext' = h.np
         /\ iPc' = settled
         /\ iLog' = Logged(iLog, iIssued,
                           <<Responded(out)>> \o pageEvents(req, out, h, settled))
    /\ UNCHANGED <<libVars, pageVars, mapVars, mode, srvCount0, srvCount, srvLimit, batchVars, iFirst, iIssued>>

\* IncrementalPromise invokes the continuation the handler returned
INext ==
    /\ iPc = "chain"
    /\ iInflight' = iInflight \o restRequests(iNext)
    /\ iIssued' = Min(iIssued + Len(restRequests(iNext)), MaxSteps)
    /\ iFirst' = FALSE
    /\ iNext' = Undef
    /\ iPc' = "waiting"
    /\ iLog' = Logged(iLog, iIssued + Len(restRequests(iNext)),
                      [k \in 1..Len(restRequests(iNext)) |-> Requested(restRequests(iNext)[k])])
    /\ UNCHANGED <<libVars, pageVars, mapVars, srvVars, batchVars, iData, iSteps, iFailed, iFault, iClean>>

(***************************************************************************)
(* Resources, References and the ResourceMap (resource/endpoint.ts; the    *)
(* older Cache-backed ResourceMap and connectOneToMany of the core).       *)
(***************************************************************************)
Types == {"articles", "authors"}
Ids == 1..MaxIds

\* the identities (type, id) a resource may have
Identities == Types \X Ids

\* a resource object; two objects of one identity are told apart by `object`,
\* the number of the object in the order of insertion
Resource(type, id, object) == [type |-> type, id |-> id, object |-> object]
IsResource(x) == "object" \in DOMAIN x

\* new Reference(id, type, resource = null)
Reference(id, type, resource) == [id |-> id, type |-> type, resource |-> resource]

\* Reference.wrap(reference): an absent reference stays absent
ReferenceWrap(reference) ==
    IF reference \in {Undef, Null} THEN reference
    ELSE Reference(reference.id, reference.type, Null)

\* lists of at most n elements of S
RECURSIVE ListsUpTo(_, _)
ListsUpTo(S, n) ==
    IF n = 0 THEN {<<>>}
    ELSE LET shorter == ListsUpTo(S, n - 1) IN
         shorter \cup {Append(l, x) : l \in {m \in shorter : Len(m) = n - 1}, x \in S}

\* new Map(): no resource under any id; keys are the ids in the order in
\* which they were first set
EmptyCache == [entries |-> [i \in Ids |-> Undef], keys |-> <<>>]

\* getOrCreateCache(type): the caches once the cache of `type` exists
getOrCreateCache(c, type) ==
    IF c[type] # Undef THEN c ELSE [c EXCEPT ![type] = EmptyCache]

\* cache.set(resource.id, resource) on the cache of `type`
CacheSet(c, type, resource) ==
    [c EXCEPT ![type] =
        [entries |-> [@.entries EXCEPT ![resource.id] = resource],
         keys |-> IF @.entries[resource.id] # Undef THEN @.keys
                  ELSE Append(@.keys, resource.id)]]

\* an insertion that keeps the resource already stored under the identity
put_KeepFirst(c, resource) ==
    LET c1 == getOrCreateCache(c, resource.type) IN
    IF c1[resource.type].entries[resource.id] # Undef THEN c1
    ELSE CacheSet(c1, resource.type, resource)

\* ResourceMap.put
put(c, resource) == CacheSet(getOrCreateCache(c, resource.type), resource.type, resource)

\* ResourceMap.putAll: resources is Undef or Arr(list)
RECURSIVE putEach(_, _)
putEach(c, list) == IF list = <<>> THEN c ELSE putEach(put(c, Head(list)), Tail(list))

putAll(c, resources) == IF resources # Undef THEN putEach(c, resources.items) ELSE c

\* ResourceMap.putAllOfType: every resource goes to the cache of resources[0].type
RECURSIVE setEach(_, _, _)
setEach(c, type, list) ==
    IF list = <<>> THEN c ELSE setEach(CacheSet(c, type, Head(list)), type, Tail(list))

\* a putAllOfType that stores the first resource only
putAllOfType_FirstOnly(c, list) == IF Len(list) > 0 THEN put(c, list[1]) ELSE c

putAllOfType(c, list) ==
    IF Len(list) > 0 THEN setEach(getOrCreateCache(c, list[1].type), list[1].type, list)
    ELSE c

\* ManyDocument.resources(): data, then included
resources(document) ==
    (IF JsTruthy(document.data) THEN document.data.items ELSE <<>>)
    \o (IF JsTruthy(document.included) THEN document.included.items ELSE <<>>)

\* ResourceMap.putDocument
putDocument(c, document) == putAll(c, Arr(resources(document)))

\* putDocument of the Cache-backed ResourceMap, for a document whose data is
\* an array: included first, then data
putDocumentCached(c, document) ==
    LET c1 == IF JsTruthy(document.included) THEN putAll(c, document.included) ELSE c IN
    putAll(c1, document.data)

\* ResourceMap.get
get(c, reference) ==
    IF c[reference.type] = Undef THEN Undef
    ELSE c[reference.type].entries[reference.id]

\* ResourceMap.getAllOfType: Array.from(cache.values()), in the order of the keys
getAllOfType(c, type) ==
    IF c[type] = Undef THEN <<>>
    ELSE [k \in 1..Len(c[type].keys) |-> c[type].entries[c[type].keys[k]]]

\* ResourceMap.clear: this.caches.clear()
clear(c) == [t \in Types |-> Undef]

\* a clearType that empties the whole map
clearType_All(c, type) == clear(c)

\* ResourceMap.clearType: this.caches.get(type)?.clear()
clearType(c, type) == IF c[type] = Undef THEN c ELSE [c EXCEPT ![type] = EmptyCache]

\* a relate call that forgets a target the Reference already had
relateOne_Forget(c, data, map) ==
    LET r == IF data.resource \in {Null, Undef} THEN get(c, data) ELSE Null IN
    [data |-> [data EXCEPT !.resource = r], args |-> IF map THEN <<r>> ELSE <<>>,
     lookups |-> 1]

\* ResourceMap.relateOne on a OneRelationship's data; map tells whether a
\* callback was passed.  The result is the data and the callback's arguments.
relateOne(c, data, map) ==
    LET r == get(c, data) IN
    [data |-> [data EXCEPT !.resource = r], args |-> IF map THEN <<r>> ELSE <<>>,
     lookups |-> 1]

\* a relateOneOptional that treats an absent Reference as a miss: it calls the
\* callback with the undefined it found
relateOneOptional_Eager(c, data, map) ==
    IF data # Null
    THEN LET r == get(c, data) IN
         [data |-> [data EXCEPT !.resource = r], args |-> IF map THEN <<r>> ELSE <<>>,
          lookups |-> 1]
    ELSE [data |-> data, args |-> IF map THEN <<Undef>> ELSE <<>>, lookups |-> 1]

\* ResourceMap.relateOneOptional; lookups counts the calls of this.get
relateOneOptional(c, data, map) ==
    IF data # Null
    THEN LET r == get(c, data) IN
         [data |-> [data EXCEPT !.resource = r], args |-> IF map THEN <<r>> ELSE <<>>,
          lookups |-> 1]
    ELSE [data |-> data, args |-> <<>>, lookups |-> 0]

\* ResourceMap.relateMany
relateMany(c, data, map) ==
    [data |-> [k \in 1..Len(data) |-> [data[k] EXCEPT !.resource = get(c, data[k])]],
     args |-> IF map THEN [k \in 1..Len(data) |-> get(c, data[k])] ELSE <<>>,
     lookups |-> Len(data)]

\* connectOneToMany(resource, resourceField, relatedResources, relatedResourceField)
\* from reference k on; field is Null or the name of the back-reference field.
\* Reading a field of undefined throws a TypeError and ends the loop.
RECURSIVE connectOneToMany(_, _, _, _, _)
connectOneToMany(c, data, field, back, k) ==
    IF k > Len(data) THEN [data |-> data, back |-> back, err |-> "none"]
    ELSE LET r == get(c, data[k])
             d1 == [data EXCEPT ![k].resource = r] IN
         IF field = Null THEN connectOneToMany(c, d1, field, back, k + 1)
         ELSE IF r = Undef THEN [data |-> d1, back |-> back, err |-> "TypeError"]
         ELSE connectOneToMany(c, d1, field, back \cup {r}, k + 1)

\* the identity of a resource or Reference
Identity(x) == <<x.type, x.id>>

\* the resource inserted last under each identity once `list` has been
\* inserted in order
RECURSIVE Inserted(_, _)
Inserted(last, list) ==
    IF list = <<>> THEN last
    ELSE Inserted([last EXCEPT ![Identity(Head(list))] = Head(list)], Tail(list))

\* whether inserting `list` in order meets an identity inserted before with
\* another resource
RECURSIVE Overwrites(_, _)
Overwrites(last, list) ==
    IF list = <<>> THEN FALSE
    ELSE \/ last[Identity(Head(list))] \notin {Undef, Head(list)}
         \/ Overwrites([last EXCEPT ![Identity(Head(list))] = Head(list)], Tail(list))

\* the lists of identities an operation may still be handed
IdentityLists == ListsUpTo(Types \X Ids, MaxObjects - inserted)

\* new resource objects with the identities of `list`
New(list) == [k \in 1..Len(list) |-> Resource(list[k][1], list[k][2], inserted + k)]

\* documents with array data whose data and included hold new resource
\* objects; an empty part may also be absent
Documents ==
    {[data |-> IF j = 0 /\ noData THEN Undef ELSE Arr(SubSeq(New(l), 1, j)),
      included |-> IF j = Len(l) /\ noIncluded THEN Undef
                   ELSE Arr(SubSeq(New(l), j + 1, Len(l)))] :
        <<l, j, noData, noIncluded>> \in
            {x \in IdentityLists \X (0..MaxObjects) \X BOOLEAN \X BOOLEAN :
                x[2] <= Len(x[1])}}

\* the map is empty and nothing has been resolved
MapEmpty ==
    /\ caches = [t \in Types |-> Undef]
    /\ lastPut = [x \in Types \X Ids |-> Undef]
    /\ homog = TRUE
    /\ replaced = FALSE
    /\ backRefs = {}
    /\ err = "none"
    /\ lastOp = [name |-> "none", cb |-> FALSE]
    /\ cbArgs = <<>>
    /\ resolves = 0
    /\ relOnce = rel

\* a map to insert into; no relationship is under test
MapInit ==
    /\ inserted = 0
    /\ rel = [kind |-> "none", data |-> Null]
    /\ MapEmpty

\* a map and the relationship of a holder, every Reference unresolved
RelateInit ==
    /\ inserted = 0
    /\ \E t \in Types, i \in Ids :
         \/ rel = [kind |-> "one", data |-> Reference(i, t, Null)]
         \/ rel = [kind |-> "optional", data |-> ReferenceWrap([id |-> i, type |-> t])]
         \/ rel = [kind |-> "optional", data |-> ReferenceWrap(Null)]
         \/ \E l \in ListsUpTo(Types \X Ids, MaxList) :
              rel = [kind |-> "many",
                     data |-> [k \in 1..Len(l) |-> Reference(l[k][2], l[k][1], Null)]]
    /\ MapEmpty

MapIdle ==
    /\ inserted = MaxObjects
    /\ rel = [kind |-> "none", data |-> Null]
    /\ MapEmpty

\* bookkeeping of an insertion operation `name` that inserted `list` in order
Noted(name, list, sameType) ==
    /\ inserted' = inserted + Len(list)
    /\ lastPut' = Inserted(lastPut, list)
    /\ replaced' = (replaced \/ Overwrites(lastPut, list))
    /\ homog' = (homog /\ sameType)
    /\ err' = "none"
    /\ lastOp' = [name |-> name, cb |-> FALSE]
    /\ cbArgs' = <<>>
    /\ resolves' = 0
    /\ relOnce' = rel

Put ==
    /\ inserted < MaxObjects
    /\ \E x \in Types \X Ids :
       \E r \in {New(<<x>>)[1]} :
         /\ caches' = put(caches, r)
         /\ Noted("put", <<r>>, TRUE)
    /\ UNCHANGED <<rel, backRefs, pageVars, fetchVars, libVars>>

PutAll ==
    /\ \E rs \in {Undef} \cup {Arr(New(l)) : l \in IdentityLists} :
         /\ caches' = putAll(caches, rs)
         /\ Noted("putAll", IF rs = Undef THEN <<>> ELSE rs.items, TRUE)
    /\ UNCHANGED <<rel, backRefs, pageVars, fetchVars, libVars>>

PutAllOfType ==
    /\ \E l \in {New(x) : x \in IdentityLists} :
         /\ caches' = putAllOfType(caches, l)
         /\ Noted("putAllOfType", l, \A k \in 1..Len(l) : l[k].type = l[1].type)
    /\ UNCHANGED <<rel, backRefs, pageVars, fetchVars, libVars>>

PutDocument ==
    /\ \E d \in Documents :
         /\ caches' = putDocument(caches, d)
         /\ Noted("putDocument", resources(d), TRUE)
    /\ UNCHANGED <<rel, backRefs, pageVars, fetchVars, libVars>>

PutDocumentCached ==
    /\ \E d \in {x \in Documents : x.data # Undef} :
         /\ caches' = putDocumentCached(caches, d)
         /\ Noted("putDocumentCached",
                  (IF d.included = Undef THEN <<>> ELSE d.included.items) \o d.data.items,
                  TRUE)
    /\ UNCHANGED <<rel, backRefs, pageVars, fetchVars, libVars>>

\* ResourceMap.clear()
Clear ==
    /\ caches' = clear(caches)
    /\ lastOp' = [name |-> "clear", cb |-> FALSE]
    /\ UNCHANGED <<lastPut, homog, replaced, inserted, rel, backRefs, err, cbArgs,
                   resolves, relOnce, pageVars, fetchVars, libVars>>

\* ResourceMap.clearType(type)
ClearType ==
    /\ \E type \in Types :
         /\ caches' = clearType(caches, type)
         /\ lastOp' = [name |-> "clearType", cb |-> FALSE, type |-> type]
    /\ UNCHANGED <<lastPut, homog, replaced, inserted, rel, backRefs, err, cbArgs,
                   resolves, relOnce, pageVars, fetchVars, libVars>>

\* bookkeeping of a relate call `name` that returned `out`
Related(name, map, out) ==
    /\ cbArgs' = out.args
    /\ err' = "none"
    /\ lastOp' = [name |-> name, cb |-> map, lookups |-> out.lookups]
    /\ resolves' = Min(resolves + 1, 2)
    /\ relOnce' = IF resolves = 0 THEN rel' ELSE relOnce
    /\ UNCHANGED <<caches, lastPut, homog, replaced, inserted, backRefs, pageVars, fetchVars, libVars>>

RelateOne ==
    /\ rel.kind = "one"
    /\ \E map \in BOOLEAN :
         LET out == relateOne(caches, rel.data, map) IN
         /\ rel' = [rel EXCEPT !.data = out.data]
         /\ Related("relateOne", map, out)

RelateOneOptional ==
    /\ rel.kind = "optional"
    /\ \E map \in BOOLEAN :
         LET out == relateOneOptional(caches, rel.data, map) IN
         /\ rel' = [rel EXCEPT !.data = out.data]
         /\ Related("relateOneOptional", map, out)

RelateMany ==
    /\ rel.kind = "many"
    /\ \E map \in BOOLEAN :
         LET out == relateMany(caches, rel.data, map) IN
         /\ rel' = [rel EXCEPT !.data = out.data]
         /\ Related("relateMany", map, out)

ConnectOneToMany ==
    /\ rel.kind = "many"
    /\ \E field \in {Null, [str |-> "owner"]} :
         LET out == connectOneToMany(caches, rel.data, field, backRefs, 1) IN
         /\ rel' = [rel EXCEPT !.data = out.data]
         /\ backRefs' = out.back
         /\ err' = out.err
         /\ lastOp' = [name |-> "connectOneToMany", cb |-> field # Null]
         /\ cbArgs' = <<>>
         /\ resolves' = 0
         /\ relOnce' = rel'
    /\ UNCHANGED <<caches, lastPut, homog, replaced, inserted, pageVars, fetchVars, libVars>>

(***************************************************************************)
(* Merging pages: Document.merge (schema.ts) and ReadManyDocument.combine  *)
(* (framework/document/index.ts) on three pages.                           *)
(***************************************************************************)
\* an operation that has not been run
NotRun == [run |-> FALSE]

\* the data of page k: nothing, or up to MaxPageItems articles of its own
PageData(k) ==
    {Undef} \cup {Arr([j \in 1..n |-> [type |-> "articles", id |-> (k - 1) * MaxPageItems + j]]) :
                    n \in 0..MaxPageItems}

\* the included of a page: nothing, or the first authors, the same ones on
\* every page
PageIncluded ==
    {Undef} \cup {Arr([j \in 1..n |-> [type |-> "authors", id |-> j]]) : n \in 0..MaxPageItems}

\* the loop of combine over the remaining pages: combined.data!.push(...other.data!)
\* throws when either data is absent, combined.included?.push(...) does nothing
\* when combined.included is absent
RECURSIVE combineLoop(_, _)
combineLoop(combined, rest) ==
    IF rest = <<>> THEN [ok |-> TRUE, combined |-> combined]
    ELSE LET other == Head(rest) IN
         IF combined.data = Undef \/ other.data = Undef
         THEN [ok |-> FALSE, combined |-> combined]
         ELSE combineLoop(
                [combined EXCEPT
                   !.data = Arr(@.items \o other.data.items),
                   !.included = IF @ = Undef THEN Undef
                                ELSE Arr(@.items \o (IF other.included = Undef THEN <<>>
                                                     ELSE other.included.items))],
                Tail(rest))

\* ReadManyDocument.combine(data, modelFactory): the outcome, the list `data`
\* after the call (shift() took its first element) and the page that was its
\* first element after the call (the loop pushed into its arrays)
combine(data) ==
    IF data = <<>> THEN [out |-> Rejected(TypeError), pages |-> <<>>, first |-> Undef]
    ELSE LET l == combineLoop(Head(data), Tail(data))
             w == ManyDocumentWrap(l.combined) IN
         [out |-> IF ~l.ok THEN Rejected(TypeError)
                  ELSE IF ~w.ok THEN w
                  ELSE IF l.combined.data = Undef THEN Rejected(TypeError)
                  ELSE w,
          pages |-> Tail(data),
          first |-> l.combined]

MergeInit ==
    /\ mPages \in {<<[data |-> d1, included |-> i1, meta |-> Undef],
                      [data |-> d2, included |-> i2, meta |-> Undef],
                      [data |-> d3, included |-> i3, meta |-> Undef]>> :
                      <<d1, d2, d3, i1, i2, i3>> \in
                          PageData(1) \X PageData(2) \X PageData(3)
                          \X PageIncluded \X PageIncluded \X PageIncluded}
    /\ mLeft = NotRun
    /\ mRight = NotRun
    /\ mCombined = NotRun

MergeIdle ==
    /\ mPages = [k \in 1..3 |-> [data |-> Undef, included |-> Undef, meta |-> Undef]]
    /\ mLeft = [run |-> TRUE] /\ mRight = [run |-> TRUE] /\ mCombined = [run |-> TRUE]

\* p1.merge(p2), then the result .merge(p3)
MergeLeft ==
    /\ mLeft = NotRun
    /\ mLeft' = [run |-> TRUE,
                 two |-> merge(mPages[1], mPages[2]),
                 out |-> merge(merge(mPages[1], mPages[2]), mPages[3])]
    /\ UNCHANGED <<mPages, mRight, mCombined, wrapVars, writeVars, moreVars, pageVars, fetchVars, mapVars>>

\* p2.merge(p3), then p1.merge of the result
MergeRight ==
    /\ mRight = NotRun
    /\ mRight' = [run |-> TRUE,
                  out |-> merge(mPages[1], merge(mPages[2], mPages[3]))]
    /\ UNCHANGED <<mPages, mLeft, mCombined, wrapVars, writeVars, moreVars, pageVars, fetchVars, mapVars>>

\* ReadManyDocument.combine on the list of the first n pages
Combine ==
    /\ mCombined = NotRun
    /\ \E n \in 0..3 :
       \E c \in {combine(SubSeq(mPages, 1, n))} :
         mCombined' = [run |-> TRUE, n |-> n, out |-> c.out, pages |-> c.pages,
                       first |-> c.first]
    /\ UNCHANGED <<mPages, mLeft, mRight, wrapVars, writeVars, moreVars, pageVars, fetchVars, mapVars>>

(***************************************************************************)
(* The model registry (unnamed/part_011), the legacy resource registry     *)
(* (unnamed/part_000) and the wrapping of raw documents.                   *)
(***************************************************************************)
WireTypes == {"articles", "authors"}
\* the view discriminators of the wire
Views == {[str |-> "brief"]}

\* the factory registered for a type, or for a view of a type
Factory(type, view) == [type |-> type, view |-> view]
Factories == {Factory(t, v) : t \in WireTypes, v \in {Undef} \cup Views}

\* a wire element: its view discriminator may be absent
Elements == [type : WireTypes, view : {Undef} \cup Views]

\* factory.read(resource): the model, which remembers the factory that made it
read(factory, resource) == [by |-> factory, resource |-> resource]

\* new ModelRegistryEntry()
ModelRegistryEntry == [factory |-> Undef, factoryByView |-> Undef]

\* registry.put(modelFactory): the registry after the call
ModelRegistryPut(reg, modelFactory) ==
    LET entry == IF reg[modelFactory.type] = Undef THEN ModelRegistryEntry
                 ELSE reg[modelFactory.type] IN
    [reg EXCEPT ![modelFactory.type] = [entry EXCEPT !.factory = modelFactory]]

\* registry.putView(view, modelFactory): the registry after the call
ModelRegistryPutView(reg, view, modelFactory) ==
    LET entry == IF reg[modelFactory.type] = Undef THEN ModelRegistryEntry
                 ELSE reg[modelFactory.type]
        byView == IF entry.factoryByView = Undef THEN [v \in Views |-> Undef]
                  ELSE entry.factoryByView.map IN
    [reg EXCEPT ![modelFactory.type] =
        [entry EXCEPT !.factoryByView = [map |-> [byView EXCEPT ![view] = modelFactory]]]]

\* a get that falls back to the factory of the type when the view has none
ModelRegistryGet_Fallback(reg, resource) ==
    LET entry == reg[resource.type] IN
    IF entry = Undef THEN Undef
    ELSE IF resource.view # Undef /\ entry.factoryByView # Undef
            /\ entry.factoryByView.map[resource.view] # Undef
    THEN entry.factoryByView.map[resource.view]
    ELSE entry.factory

\* registry.get(resource)
ModelRegistryGet(reg, resource) ==
    LET entry == reg[resource.type] IN
    IF resource.view # Undef
    THEN IF entry = Undef THEN Undef
         ELSE IF entry.factoryByView = Undef THEN Undef
         ELSE entry.factoryByView.map[resource.view]
    ELSE IF entry = Undef THEN Undef
         ELSE entry.factory

NoFactory(resource) == [error |-> "no factory", type |-> resource.type, view |-> resource.view]

\* a wrap that hands back the raw element when it finds no factory
ModelRegistryWrap_Lenient(reg, resource) ==
    LET factory == ModelRegistryGet(reg, resource) IN
    IF factory = Undef THEN Fulfilled(resource)
    ELSE Fulfilled(read(factory, resource))

\* registry.wrap(resource)
ModelRegistryWrap(reg, resource) ==
    LET factory == ModelRegistryGet(reg, resource) IN
    IF factory = Undef THEN Rejected(NoFactory(resource))
    ELSE Fulfilled(read(factory, resource))

\* a wrapAll that leaves out the elements it finds no factory for
ModelRegistryWrapAll_SkipMissing(reg, elems) ==
    LET Has(r) == ModelRegistryGet(reg, r) # Undef
        kept == SelectSeq(elems, Has) IN
    Fulfilled([i \in 1..Len(kept) |-> ModelRegistryWrap(reg, kept[i]).value])

\* registry.wrapAll(resources): map() stops at the first element that throws
ModelRegistryWrapAll(reg, elems) ==
    LET out == [i \in 1..Len(elems) |-> ModelRegistryWrap(reg, elems[i])]
        bad == {i \in 1..Len(elems) : ~out[i].ok} IN
    IF bad # {} THEN out[CHOOSE i \in bad : \A j \in bad : i <= j]
    ELSE Fulfilled([i \in 1..Len(elems) |-> out[i].value])

\* the array a successful wrapAll returned, as the value of a document field
AsField(out) == IF out.ok THEN Fulfilled(Arr(out.value)) ELSE out

\* ReadManyDocument.wrap(data, modelFactory): bind() wraps included through
\* the registry, the data is read by the factory handed in
ReadManyDocumentWrap(reg, data, modelFactory) ==
    LET included == IF data.included = Undef THEN Fulfilled(Undef)
                    ELSE AsField(ModelRegistryWrapAll(reg, data.included.items)) IN
    IF ~included.ok THEN included
    ELSE Fulfilled(
           [data |-> IF data.data = Undef THEN Undef
                     ELSE Arr([i \in 1..Len(data.data.items) |->
                                 read(modelFactory, data.data.items[i])]),
            included |-> included.value])

\* Resource.wrap(resource) of the legacy resources: reading the type of null
\* and calling new on a missing constructor both throw a TypeError
ResourceWrap(types, resource) ==
    IF resource = Null THEN Rejected(TypeError)
    ELSE IF resource.type \notin types THEN Rejected(TypeError)
    ELSE Fulfilled([by |-> [constructor |-> resource.type], resource |-> resource])

\* Resource.wrapAll(resources) of the legacy resources: new constructor(resource)
\* with the constructor registered for the type, a TypeError when there is none
ResourceWrapAll(types, elems) ==
    IF \E i \in 1..Len(elems) : elems[i].type \notin types
    THEN Rejected(TypeError)
    ELSE Fulfilled([i \in 1..Len(elems) |->
                      [by |-> [constructor |-> elems[i].type],
                       resource |-> elems[i]]])

\* Resource.wrapAllOfType(resources): every element built with the constructor
\* of the first one; an empty array when that type is not registered
wrapAllOfType(types, elems) ==
    IF elems = <<>> THEN Fulfilled(<<>>)
    ELSE IF elems[1].type \notin types THEN Fulfilled(<<>>)
    ELSE Fulfilled([i \in 1..Len(elems) |->
                      [by |-> [constructor |-> elems[1].type],
                       resource |-> elems[i]]])

\* new Document(document) of the legacy schema: data and included both go
\* through Resource.wrapAll
LegacyDocument(types, document) ==
    LET data == IF document.data = Undef THEN Fulfilled(Undef)
                ELSE IF "items" \in DOMAIN document.data
                THEN AsField(ResourceWrapAll(types, document.data.items))
                ELSE ResourceWrap(types, document.data)
        included == IF document.included = Undef THEN Fulfilled(Undef)
                    ELSE AsField(ResourceWrapAll(types, document.included.items)) IN
    IF ~data.ok THEN data
    ELSE IF ~included.ok THEN included
    ELSE Fulfilled([data |-> data.value, included |-> included.value])

\* the arrays of wire elements a raw document may carry
RECURSIVE ElementLists(_)
ElementLists(n) ==
    IF n = 0 THEN {<<>>}
    ELSE ElementLists(n - 1)
         \cup {Append(l, e) : l \in {x \in ElementLists(n - 1) : Len(x) = n - 1},
                              e \in Elements}

RawDocuments ==
    [data : {Undef} \cup {Arr(l) : l \in ElementLists(MaxElems)},
     included : {Undef} \cup {Arr(l) : l \in ElementLists(MaxElems)}]

WrapInit ==
    /\ registered = [t \in WireTypes |-> Undef]
    /\ legacyRegistered = {}
    /\ wCall = [fn |-> "none"]

WrapIdle ==
    /\ registered = [t \in WireTypes |-> Undef]
    /\ legacyRegistered = {}
    /\ wCall = [fn |-> "idle"]

\* register(factory)
RegPut ==
    /\ wCall.fn = "none"
    /\ \E t \in WireTypes :
         registered' = ModelRegistryPut(registered, Factory(t, Undef))
    /\ UNCHANGED <<legacyRegistered, wCall, mergeVars, writeVars, moreVars, pageVars, fetchVars, mapVars>>

\* register.view(view)(factory)
RegPutView ==
    /\ wCall.fn = "none"
    /\ \E t \in WireTypes, v \in Views :
         registered' = ModelRegistryPutView(registered, v, Factory(t, v))
    /\ UNCHANGED <<legacyRegistered, wCall, mergeVars, writeVars, moreVars, pageVars, fetchVars, mapVars>>

\* @Resource.register(type)
LegacyRegister ==
    /\ wCall.fn = "none"
    /\ \E t \in WireTypes : legacyRegistered' = legacyRegistered \cup {t}
    /\ UNCHANGED <<registered, wCall, mergeVars, writeVars, moreVars, pageVars, fetchVars, mapVars>>

\* registry.wrap(resource)
WrapElement ==
    /\ wCall.fn = "none"
    /\ \E resource \in Elements :
         wCall' = [fn |-> "wrap", resource |-> resource,
                   out |-> ModelRegistryWrap(registered, resource)]
    /\ UNCHANGED <<registered, legacyRegistered, mergeVars, writeVars, moreVars, pageVars, fetchVars, mapVars>>

\* ReadManyDocument.wrap(data, modelFactory)
WrapDocument ==
    /\ wCall.fn = "none"
    /\ \E data \in RawDocuments, t \in WireTypes :
         wCall' = [fn |-> "ReadManyDocument.wrap", raw |-> data,
                   out |-> ReadManyDocumentWrap(registered, data, Factory(t, Undef))]
    /\ UNCHANGED <<registered, legacyRegistered, mergeVars, writeVars, moreVars, pageVars, fetchVars, mapVars>>

\* new Document(document) of the legacy schema
WrapLegacyDocument ==
    /\ wCall.fn = "none"
    /\ \E document \in RawDocuments :
         wCall' = [fn |-> "new Document", raw |-> document,
                   out |-> LegacyDocument(legacyRegistered, document)]
    /\ UNCHANGED <<registered, legacyRegistered, mergeVars, writeVars, moreVars, pageVars, fetchVars, mapVars>>

\* Resource.wrapAllOfType(resources)
WrapAllOfType ==
    /\ wCall.fn = "none"
    /\ \E elems \in ElementLists(MaxElems) :
         wCall' = [fn |-> "wrapAllOfType", elems |-> elems,
                   out |-> wrapAllOfType(legacyRegistered, elems)]
    /\ UNCHANGED <<registered, legacyRegistered, mergeVars, writeVars, moreVars, pageVars, fetchVars, mapVars>>

(***************************************************************************)
(* The single-request operations of JsonApi (framework/api.ts): getMany,   *)
(* getOne, create, update and delete, each send().then(status(n)).then(...) *)
(***************************************************************************)
\* OneDocument.wrap(data, modelFactory): bind() wraps included through the
\* registry, the data is read by the factory handed in
OneDocumentWrap(reg, data, modelFactory) ==
    LET included == IF data.included = Undef THEN Fulfilled(Undef)
                    ELSE AsField(ModelRegistryWrapAll(reg, data.included.items)) IN
    IF ~included.ok THEN included
    ELSE Fulfilled([data |-> IF data.data = Undef THEN Undef
                             ELSE read(modelFactory, data.data),
                    included |-> included.value,
                    errors |-> data.errors])

\* send().then(status(expected)).then(raw => OneDocument.wrap(raw, model))
sendOne(expected, response) ==
    IF ~response.transport THEN Rejected([error |-> "transport"])
    ELSE LET s == status(expected, response) IN
         IF ~s.ok THEN s
         ELSE OneDocumentWrap([t \in WireTypes |-> Undef], s.value, Factory("articles", Undef))

\* JsonApi.getOne
getOne(response) == sendOne(StatusOk, response)

\* JsonApi.create
create(response) == sendOne(StatusCreated, response)

\* JsonApi.update
update(response) == sendOne(StatusCreated, response)

\* JsonApi.delete: send().then(status(204)).then()
delete(response) ==
    IF ~response.transport THEN Rejected([error |-> "transport"])
    ELSE status(StatusNoContent, response)

\* the statuses a server answers with
Statuses == {StatusOk, StatusCreated, 202, StatusNoContent, 400, 404, 500}

\* the errors member of a response document: absent, or an array of errors
ErrorArrays ==
    {Undef} \cup {Arr([j \in 1..n |-> [code |-> j]]) : n \in 0..MaxErrors}

\* what send() settles with: a transport failure, or a response with a status
\* and a document holding one resource or none
OneResponses ==
    {[transport |-> FALSE]}
    \cup [transport : {TRUE}, status : Statuses,
          document : [data : {Undef, [type |-> "articles", view |-> Undef]},
                      included : {Undef}, meta : {Undef}, errors : ErrorArrays]]

\* the same with an array of resources as data
ManyResponses ==
    {[transport |-> FALSE]}
    \cup [transport : {TRUE}, status : Statuses,
          document : [data : {Undef, Arr(<<[type |-> "articles", id |-> 1]>>)},
                      included : {Undef}, meta : {Undef}, errors : ErrorArrays]]

WriteInit == opCall = [fn |-> "none"]

WriteIdle == opCall = [fn |-> "idle"]

OpGetMany ==
    /\ opCall.fn = "none"
    /\ \E response \in ManyResponses :
         opCall' = [fn |-> "getMany", response |-> response, out |-> getMany(response)]
    /\ UNCHANGED <<mergeVars, wrapVars, moreVars, pageVars, fetchVars, mapVars>>

OpGetOne ==
    /\ opCall.fn = "none"
    /\ \E response \in OneResponses :
         opCall' = [fn |-> "getOne", response |-> response, out |-> getOne(response)]
    /\ UNCHANGED <<mergeVars, wrapVars, moreVars, pageVars, fetchVars, mapVars>>

OpCreate ==
    /\ opCall.fn = "none"
    /\ \E response \in OneResponses :
         opCall' = [fn |-> "create", response |-> response, out |-> create(response)]
    /\ UNCHANGED <<mergeVars, wrapVars, moreVars, pageVars, fetchVars, mapVars>>

OpUpdate ==
    /\ opCall.fn = "none"
    /\ \E response \in OneResponses :
         opCall' = [fn |-> "update", response |-> response, out |-> update(response)]
    /\ UNCHANGED <<mergeVars, wrapVars, moreVars, pageVars, fetchVars, mapVars>>

OpDelete ==
    /\ opCall.fn = "none"
    /\ \E response \in OneResponses :
         opCall' = [fn |-> "delete", response |-> response, out |-> delete(response)]
    /\ UNCHANGED <<mergeVars, wrapVars, moreVars, pageVars, fetchVars, mapVars>>

(***************************************************************************)
(* A document through its life: wrapped once from a raw document (legacy   *)
(* schema.ts Document or framework document), then, when it holds an array, *)
(* extended by Document.merge with further wrapped pages.                  *)
(***************************************************************************)
\* a registry with a type-level factory for every type
FullRegistry ==
    [t \in WireTypes |-> [factory |-> Factory(t, Undef), factoryByView |-> Undef]]

\* wire elements without a view
PlainElements == [type : WireTypes, view : {Undef}]

\* raw documents of a collection: data is an array or absent
RawManyPages ==
    [data : {Undef} \cup {Arr(l) : l \in ListsUpTo(PlainElements, MaxPageItems)},
     included : {Undef} \cup {Arr([j \in 1..n |-> [type |-> "authors", view |-> Undef]]) :
                                n \in 0..MaxPageItems},
     errors : {Undef}]

\* raw documents of a single resource: data is a resource, null or absent
RawOneDocuments ==
    [data : {Undef, Null} \cup PlainElements,
     included : {Undef} \cup {Arr([j \in 1..n |-> [type |-> "authors", view |-> Undef]]) :
                                n \in 0..MaxPageItems},
     errors : {Undef}]

\* the wrapping of a raw document by the legacy or the framework classes
WrapAs(impl, cardinality, raw) ==
    IF impl = "legacy" THEN LegacyDocument(WireTypes, raw)
    ELSE IF cardinality = "many"
    THEN ReadManyDocumentWrap(FullRegistry, raw, Factory("articles", Undef))
    ELSE OneDocumentWrap(FullRegistry, raw, Factory("articles", Undef))

\* the document a wrap left behind, none when it threw
Wrapped(impl, cardinality, out) ==
    IF out.ok
    THEN [cardinality |-> cardinality, impl |-> impl, merges |-> 0,
          data |-> out.value.data, included |-> out.value.included]
    ELSE [cardinality |-> "failed"]

DocInit == doc = [cardinality |-> "none"]

DocIdle == doc = [cardinality |-> "idle"]

\* new Document(raw) / ReadManyDocument.wrap(raw, factory) for a collection
DocWrapMany ==
    /\ doc.cardinality = "none"
    /\ \E impl \in {"legacy", "framework"}, raw \in RawManyPages :
         doc' = Wrapped(impl, "many", WrapAs(impl, "many", raw))
    /\ UNCHANGED <<pwCall, mHeap, rsCall, mergeVars, wrapVars, writeVars,
                   pageVars, fetchVars, mapVars>>

\* new Document(raw) / OneDocument.wrap(raw, factory) for a single resource;
\* the framework factory is not handed a null
DocWrapOne ==
    /\ doc.cardinality = "none"
    /\ \E impl \in {"legacy", "framework"}, raw \in RawOneDocuments :
         /\ impl = "framework" => raw.data # Null
         /\ doc' = Wrapped(impl, "one", WrapAs(impl, "one", raw))
    /\ UNCHANGED <<pwCall, mHeap, rsCall, mergeVars, wrapVars, writeVars,
                   pageVars, fetchVars, mapVars>>

\* document.merge(page) with a page wrapped the same way
DocMerge ==
    /\ doc.cardinality = "many"
    /\ doc.merges < MaxMerges
    /\ \E raw \in RawManyPages :
       \E page \in {WrapAs(doc.impl, "many", raw).value} :
         doc' = [merge(doc, page) EXCEPT !.merges = doc.merges + 1]
    /\ UNCHANGED <<pwCall, mHeap, rsCall, mergeVars, wrapVars, writeVars,
                   pageVars, fetchVars, mapVars>>

(***************************************************************************)
(* ParameterWrapper (framework/library/parameters.ts): a Map from          *)
(* parameter names to strings; a name without entry maps to Undef.         *)
(***************************************************************************)
\* PartialDocumentPagination.formatPageField(field)
formatPageField(field) == "page[" \o field \o "]"

ParamKeys == {formatPageField("offset"), formatPageField("limit"), "sort"}

\* the strings a parameter may hold
ParamValues == {toString(Num(n)) : n \in 0..MaxLimit}

\* the parameter maps
ParamMaps == [ParamKeys -> {Undef} \cup ParamValues]

\* new ParameterWrapper()
EmptyParameters == [k \in ParamKeys |-> Undef]

\* the parameters map of a pagination
PaginationParameters(p) ==
    [k \in ParamKeys |->
        IF k = formatPageField("offset") THEN p.params.offset
        ELSE IF k = formatPageField("limit") THEN p.params.limit
        ELSE Undef]

\* a with() that lets the receiver's values win
with_KeepThis(this, other) ==
    [result |-> [k \in ParamKeys |-> IF this[k] # Undef THEN this[k] ELSE other[k]],
     this |-> this, other |-> other]

\* this.with(other): the new wrapper's map, and the two maps after the call;
\* set() is called on the result only
with(this, other) ==
    LET r1 == [k \in ParamKeys |-> IF this[k] # Undef THEN this[k] ELSE EmptyParameters[k]]
        r2 == [k \in ParamKeys |-> IF other[k] # Undef THEN other[k] ELSE r1[k]] IN
    [result |-> r2, this |-> this, other |-> other]

ParamInit == pwCall = [fn |-> "none"]

\* this.with(other) on two parameter wrappers
ParamWith ==
    /\ pwCall.fn = "none"
    /\ \E this \in ParamMaps, other \in ParamMaps :
         pwCall' = [fn |-> "with", this |-> this, other |-> other,
                    out |-> with(this, other)]
    /\ UNCHANGED <<doc, mHeap, rsCall, mergeVars, wrapVars, writeVars,
                   pageVars, fetchVars, mapVars>>

\* q.typed(type).with(p).parameters in getMany, p from pagination(offset, limit)
ParamWithPagination ==
    /\ pwCall.fn = "none"
    /\ \E q \in ParamMaps, offset \in 0..MaxLimit,
          limit \in {Undef} \cup {Num(l) : l \in 0..MaxLimit} :
       \E p \in {pagination(Num(offset), limit)} :
         pwCall' = [fn |-> "getMany", this |-> q, other |-> PaginationParameters(p),
                    p |-> p, out |-> with(q, PaginationParameters(p))]
    /\ UNCHANGED <<doc, mHeap, rsCall, mergeVars, wrapVars, writeVars,
                   pageVars, fetchVars, mapVars>>

(***************************************************************************)
(* Document.merge on shared arrays (schema.ts): data and included are      *)
(* references to arrays; a heap maps each address to the array's elements. *)
(***************************************************************************)
\* the documents: A is the receiver, B and C are merged into it
DocNames == <<"A", "B", "C">>

\* a reference to the array at address a
Ref(a) == [addr |-> a]

\* the address the array of field f (1 data, 2 included) of document d gets
AddrOf(d, f) == 2 * (d - 1) + f

\* the n elements a field of document d starts with
ItemsOf(d, f, n) == [k \in 1..n |-> 100 * d + 10 * f + k]

\* the array a reference points to, Undef for an absent field
Contents(h, ref) == IF ref = Undef THEN Undef ELSE Arr(h.arrays[ref.addr])

\* data and included of document name, by value
Snapshot(h, name) ==
    [data |-> Contents(h, h.docs[name].data),
     included |-> Contents(h, h.docs[name].included)]

\* one field of merge: nothing when other's is absent, the receiver takes
\* other's array itself when its own is absent, and otherwise pushes other's
\* elements onto its own array
mergeField(arrays, thisRef, otherRef) ==
    IF otherRef = Undef THEN [arrays |-> arrays, ref |-> thisRef]
    ELSE IF thisRef = Undef THEN [arrays |-> arrays, ref |-> otherRef]
    ELSE [arrays |-> [arrays EXCEPT ![thisRef.addr] = @ \o arrays[otherRef.addr]],
          ref |-> thisRef]

\* this.merge(other) of Document on the heap h
DocumentMerge(h, this, other) ==
    LET d == mergeField(h.arrays, h.docs[this].data, h.docs[other].data)
        i == mergeField(d.arrays, h.docs[this].included, h.docs[other].included)
    IN [h EXCEPT !.arrays = i.arrays,
                 !.docs = [@ EXCEPT ![this] = [data |-> d.ref, included |-> i.ref]]]

\* three documents, each field absent (-1) or an array of its own
HeapInit ==
    \E len \in [1..6 -> -1..MaxPageItems] :
        mHeap = [fn |-> "heap",
                 arrays |-> [a \in 1..6 |->
                               IF len[a] < 0 THEN <<>>
                               ELSE ItemsOf((a + 1) \div 2, 2 - (a % 2), len[a])],
                 docs |-> [name \in {"A", "B", "C"} |->
                             LET d == CHOOSE k \in 1..3 : DocNames[k] = name IN
                             [data |-> IF len[AddrOf(d, 1)] < 0 THEN Undef
                                       ELSE Ref(AddrOf(d, 1)),
                              included |-> IF len[AddrOf(d, 2)] < 0 THEN Undef
                                           ELSE Ref(AddrOf(d, 2))]],
                 merged |-> <<>>,
                 before |-> [name \in {"B", "C"} |-> Undef]]

\* A.merge(other) for other one of B and C; the first time a document is
\* merged, what it held just before is noted
HeapMerge ==
    /\ mHeap.fn = "heap"
    /\ Len(mHeap.merged) < MaxMerges
    /\ \E other \in {"B", "C"} :
         mHeap' = [DocumentMerge(mHeap, "A", other) EXCEPT
                     !.merged = Append(@, other),
                     !.before = IF @[other] # Undef THEN @
                                ELSE [@ EXCEPT ![other] = Snapshot(mHeap, other)]]
    /\ UNCHANGED <<doc, pwCall, rsCall, mergeVars, wrapVars, writeVars,
                   pageVars, fetchVars, mapVars>>

(***************************************************************************)
(* Relationships of a model (model/relationship.ts): OneRelationship,      *)
(* OneOptionalRelationship and ManyRelationship, built from a wire         *)
(* relationship by wrap and refreshed from one by rewrap.                  *)
(***************************************************************************)
\* a ?? b
JsNullish(a, b) == IF a \in {Undef, Null} THEN b ELSE a

\* Reference.wrap(reference, resource): the constructor's default makes an
\* undefined resource null
ReferenceWrapWith(reference, resource) ==
    IF reference \in {Undef, Null} THEN reference
    ELSE Reference(reference.id, reference.type, JsNullish(resource, Null))

\* array.map(Reference.wrap): map hands the callback the element and its index
MapReferenceWrap(data) ==
    Arr([k \in 1..Len(data.items) |-> ReferenceWrapWith(data.items[k], Num(k - 1))])

\* the three kinds of relationship
RelationshipKinds == {"one", "optional", "many"}

\* the data a wire relationship of a kind may carry
WireData(kind) ==
    LET refs == {[id |-> x[2], type |-> x[1]] : x \in Identities} IN
    CASE kind = "one" -> refs
      [] kind = "optional" -> refs \cup {Null}
      [] OTHER -> {Arr(l) : l \in ListsUpTo(refs, MaxList)}

\* the links and the meta a wire relationship may carry
WireLinks ==
    {Undef, [self |-> [str |-> "/self"]],
     [self |-> [str |-> "/self"], related |-> [str |-> "/related"]]}
WireMeta == {Undef, [count |-> Num(1)]}

\* the wire relationships of a kind
WireRelationships(kind) ==
    {[data |-> d, links |-> l, meta |-> m] :
        d \in WireData(kind), l \in WireLinks, m \in WireMeta}

\* OneRelationship.wrap, OneOptionalRelationship.wrap, ManyRelationship.wrap
\* of a relationship that is present
RelationshipWrap(kind, relationship) ==
    [data |-> IF kind = "many" THEN MapReferenceWrap(relationship.data)
              ELSE ReferenceWrapWith(relationship.data, Undef),
     links |-> JsOr(relationship.links, Null),
     meta |-> JsOr(relationship.meta, Null)]

\* this.rewrap(relationship): meta, then links, then data; the links are
\* assigned relationship.meta ?? null
rewrap(kind, this, relationship) ==
    [meta |-> JsNullish(relationship.meta, Null),
     links |-> JsNullish(relationship.meta, Null),
     data |-> IF kind = "many" THEN MapReferenceWrap(relationship.data)
              ELSE ReferenceWrapWith(relationship.data, Undef)]

\* no relationship has been built
RelInit == rsCall = [fn |-> "none"]

\* build a relationship of some kind from a wire relationship
RelWrap ==
    /\ rsCall.fn = "none"
    /\ \E kind \in RelationshipKinds :
       \E relationship \in WireRelationships(kind) :
         rsCall' = [fn |-> "wrap", kind |-> kind, wire |-> relationship,
                    rel |-> RelationshipWrap(kind, relationship)]
    /\ UNCHANGED <<doc, pwCall, mHeap, mergeVars, wrapVars, writeVars,
                   pageVars, fetchVars, mapVars>>

\* refresh the relationship from another wire relationship of its kind
RelRewrap ==
    /\ rsCall.fn \in {"wrap", "rewrap"}
    /\ \E relationship \in WireRelationships(rsCall.kind) :
         rsCall' = [fn |-> "rewrap", kind |-> rsCall.kind, wire |-> relationship,
                    rel |-> rewrap(rsCall.kind, rsCall.rel, relationship)]
    /\ UNCHANGED <<doc, pwCall, mHeap, mergeVars, wrapVars, writeVars,
                   pageVars, fetchVars, mapVars>>

MoreIdle ==
    /\ DocIdle
    /\ pwCall = [fn |-> "idle"]
    /\ mHeap = [fn |-> "idle"]
    /\ rsCall = [fn |-> "idle"]

LibIdle == MergeIdle /\ WrapIdle /\ WriteIdle /\ MoreIdle

(***************************************************************************)
(* Specifications.                                                         *)
(***************************************************************************)
InitPage == PageInit /\ FetchIdle /\ MapIdle /\ LibIdle
InitFetch == PageIdle /\ FetchInit /\ MapIdle /\ LibIdle
InitMap == PageIdle /\ FetchIdle /\ MapInit /\ LibIdle
InitRelate == PageIdle /\ FetchIdle /\ RelateInit /\ LibIdle
InitMerge == PageIdle /\ FetchIdle /\ MapIdle /\ MergeInit /\ WrapIdle /\ WriteIdle /\ MoreIdle
InitWrap == PageIdle /\ FetchIdle /\ MapIdle /\ MergeIdle /\ WrapInit /\ WriteIdle /\ MoreIdle
InitWrite == PageIdle /\ FetchIdle /\ MapIdle /\ MergeIdle /\ WrapIdle /\ WriteInit /\ MoreIdle
OthersIdle == PageIdle /\ FetchIdle /\ MapIdle /\ MergeIdle /\ WrapIdle /\ WriteIdle
InitDoc ==
    /\ OthersIdle /\ DocInit
    /\ pwCall = [fn |-> "idle"] /\ mHeap = [fn |-> "idle"] /\ rsCall = [fn |-> "idle"]
InitParam ==
    /\ OthersIdle /\ DocIdle /\ ParamInit
    /\ mHeap = [fn |-> "idle"] /\ rsCall = [fn |-> "idle"]

InitHeap ==
    /\ OthersIdle /\ DocIdle /\ HeapInit
    /\ pwCall = [fn |-> "idle"] /\ rsCall = [fn |-> "idle"]

InitRel ==
    /\ OthersIdle /\ DocIdle /\ RelInit
    /\ pwCall = [fn |-> "idle"] /\ mHeap = [fn |-> "idle"]

NextPage == PgPages \/ PgAdvance \/ PgAdvanceBy \/ PgPagesOf
NextFetch == Delete \/ BStart \/ BFirst \/ BRest \/ BMerge \/ IStart \/ IRespond \/ INext

NextMap == Put \/ PutAll \/ PutAllOfType \/ PutDocument \/ PutDocumentCached

NextClear == Put \/ PutAll \/ PutAllOfType \/ PutDocument \/ Clear \/ ClearType

NextRelate == Put \/ RelateOne \/ RelateOneOptional \/ RelateMany \/ ConnectOneToMany

NextMerge == MergeLeft \/ MergeRight \/ Combine

NextDoc == DocWrapMany \/ DocWrapOne \/ DocMerge

NextParam == ParamWith \/ ParamWithPagination

NextHeap == HeapMerge

NextRel == RelWrap \/ RelRewrap

NextWrite == OpGetMany \/ OpGetOne \/ OpCreate \/ OpUpdate \/ OpDelete

NextWrap ==
    RegPut \/ RegPutView \/ LegacyRegister \/ WrapElement \/ WrapDocument
    \/ WrapLegacyDocument \/ WrapAllOfType

SpecPage == InitPage /\ [][NextPage]_vars
SpecFetch == InitFetch /\ [][NextFetch]_vars
SpecMap == InitMap /\ [][NextMap]_vars
SpecRelate == InitRelate /\ [][NextRelate]_vars
SpecClear == InitMap /\ [][NextClear]_vars
SpecMerge == InitMerge /\ [][NextMerge]_vars
SpecWrap == InitWrap /\ [][NextWrap]_vars
SpecWrite == InitWrite /\ [][NextWrite]_vars
SpecDoc == InitDoc /\ [][NextDoc]_vars
SpecParam == InitParam /\ [][NextParam]_vars
SpecHeap == InitHeap /\ [][NextHeap]_vars
SpecRel == InitRel /\ [][NextRel]_vars

\* the steps the client and the server owe: every issued request is
\* eventually answered and every promise handler and continuation eventually
\* runs.  The writers of the collection owe nothing.
StepGetAll == BStart \/ BFirst \/ BRest \/ BMerge
StepGetAllIncremental == IStart \/ IRespond \/ INext

FairSpecFetch ==
    SpecFetch /\ WF_vars(StepGetAll) /\ WF_vars(StepGetAllIncremental)

(***************************************************************************)
(* Properties.                                                             *)
(***************************************************************************)
\* items of the windows that start at the paginations of `ps`
WindowsOf(ps) ==
    Flatten([k \in 1..Len(ps) |-> WindowItems(ps[k], pgP.limit.num, pgP.count.num)])

\* items of the first page
FirstItems == Range(pgP.offset.num, pgP.offset.num + pgRetrieved)

\* C1: the items of the first page followed by the items of the windows of
\* pages(p, retrieved), in order, are exactly offset, offset+1, ..., count-1
\* (no gap, no overlap, nothing outside); so are the items of the first page
\* followed by the windows of the finished advance chain.
C1_PagesCoverExactly ==
    /\ pgCalled => FirstItems \o WindowsOf(pgPages) = Range(pgP.offset.num, pgP.count.num)
    /\ pgPc = "end" => FirstItems \o WindowsOf(pgChain) = Range(pgP.offset.num, pgP.count.num)

C1_Witness ==
    /\ pgP.offset.num > 0
    /\ pgCalled /\ Len(pgPages) >= 2
    /\ pgPc = "end" /\ Len(pgChain) >= 2

\* C2: getAllIncremental has at most one request in flight, and the number
\* of requests issued never exceeds the number of step notifications by more
\* than one (page k+1 is requested only after page k was handed to step).
C2_OneInFlight ==
    /\ Len(iInflight) <= 1
    /\ iIssued <= iSteps + 1

C2_Witness ==
    /\ Len(iInflight) = 1
    /\ iIssued = 3
    /\ iSteps = 2

\* data of the remaining pages of getAll, in the order they were enumerated
RestData == Flatten([k \in 1..Len(bReqs) |-> bOut[k].value.data.items])

\* C3: when getAll resolves after requesting remaining pages, the data of its
\* document is the first page's data followed by the remaining pages' data in
\* enumeration order, whatever the order in which the responses arrived.
C3_MergeInEnumerationOrder ==
    (bPc = "resolved" /\ Len(bReqs) > 0) =>
        bResult.data.items = bFirstDoc.data.items \o RestData

C3_Witness ==
    /\ bPc = "resolved"
    /\ Len(bReqs) >= 2
    /\ bArrival[1] > bArrival[2]
    /\ bOut[1].value.data.items # bOut[2].value.data.items

\* C4: when getAll and getAllIncremental have both resolved over the same
\* collection served as the same honest pages, the data of getAll's document
\* equals the concatenated data of the step notifications.
C4_SameAggregate ==
    (bPc = "resolved" /\ iPc = "resolved" /\ bClean /\ iClean /\ srvCount = srvCount0) =>
        bResult.data.items = iData

C4_Witness ==
    /\ mode = "both"
    /\ bPc = "resolved" /\ iPc = "resolved"
    /\ Len(bReqs) >= 2
    /\ iSteps >= 3
    /\ Len(iData) = srvCount0

C6_MalformedMetaEndsFetch ==
    /\ bFault \in MalformedKinds => bPc = "resolved"
    /\ iFault \in MalformedKinds => (iPc = "resolved" /\ iInflight = <<>>)

\* C7: when every request is eventually answered, a started orchestration
\* eventually completes or fails.
C7_EventuallySettles ==
    <>(/\ mode # "getAllIncremental" => bPc \in {"resolved", "rejected"}
       /\ mode # "getAll" => iPc \in {"resolved", "rejected"})

\* C8: for every identity inserted so far, get() on a Reference with that
\* identity returns the resource inserted last under it, after any sequence
\* of put / putAll / putAllOfType / putDocument.
C8_LastWriteWins ==
    \A x \in Types \X Ids :
        lastPut[x] # Undef => get(caches, Reference(x[2], x[1], Null)) = lastPut[x]

\* C8 (amended): the same, as long as every list handed to putAllOfType held
\* resources of a single type.
C8_LastWriteWinsSameType == homog => C8_LastWriteWins

C8_Witness ==
    /\ homog /\ replaced
    /\ lastOp.name = "putAllOfType"
    /\ inserted >= 2

\* the References of the holder's relationship
RefsOf(r) ==
    CASE r.kind = "many" -> r.data
      [] r.data = Null -> <<>>
      [] OTHER -> <<r.data>>

ResolveOps == {"relateOne", "relateOneOptional", "relateMany", "connectOneToMany"}

\* C9: a resolution (relateOne, relateOneOptional, relateMany or
\* connectOneToMany, with or without callback / back-reference field) raises
\* no error, and every Reference whose identity the map does not contain
\* still has its initial resolved pointer, null.
C9_MissLeavesUnresolved ==
    lastOp.name \in ResolveOps =>
        /\ err = "none"
        /\ \A k \in 1..Len(RefsOf(rel)) :
             get(caches, RefsOf(rel)[k]) = Undef => RefsOf(rel)[k].resource = Null

\* C10: after two or more relate calls in a row against the unchanged map
\* the relationship is as the first of them left it.
C10_ResolveIdempotent == resolves = 2 => rel = relOnce

C10_Witness ==
    /\ resolves = 2
    /\ rel.kind = "many"
    /\ \E j, k \in 1..Len(rel.data) :
         /\ IsResource(rel.data[j].resource)
         /\ rel.data[k].resource = Undef

\* number of entries of kind e among the first j entries of the log
CountEv(log, e, j) == Cardinality({m \in 1..j : log[m].ev = e})

\* the entries of kind e of the log, in order
SelectEv(log, e) == SelectSeq(log, LAMBDA x : x.ev = e)

\* C11: in getAllIncremental, whenever a request is issued or completion is
\* signalled, every page requested before has already been handed to step:
\* the step for page k precedes the request for page k+1 and the completion.
C11_StepBeforeContinue ==
    \A j \in 1..Len(iLog) :
        iLog[j].ev \in {"request", "resolved"} =>
            CountEv(iLog, "step", j - 1) = CountEv(iLog, "request", j - 1)

C11_Witness ==
    /\ Len(iLog) > 0
    /\ iLog[Len(iLog)].ev = "resolved"
    /\ CountEv(iLog, "step", Len(iLog)) >= 2
    /\ CountEv(iLog, "request", Len(iLog)) >= 2

\* the step notifications of the log, in order
Steps == SelectEv(iLog, "step")

\* offsets of the requests that were answered successfully, in the order of
\* the answers; cur is the offset of the request sent last
RECURSIVE AnsweredOffsets(_, _)
AnsweredOffsets(log, cur) ==
    IF log = <<>> THEN <<>>
    ELSE LET e == Head(log) IN
         IF e.ev = "request" THEN AnsweredOffsets(Tail(log), e.offset)
         ELSE IF e.ev = "response" /\ e.ok THEN <<cur>> \o AnsweredOffsets(Tail(log), cur)
         ELSE AnsweredOffsets(Tail(log), cur)

\* every page requested and answered successfully is delivered by exactly
\* one step, in the order of the requests
EveryPageOnce == [i \in 1..Len(Steps) |-> Steps[i].offset] = AnsweredOffsets(iLog, Undef)

IsPrefix(a, b) == Len(a) <= Len(b) /\ SubSeq(b, 1, Len(a)) = a

\* C13: when a page request of getAllIncremental fails, no step is delivered
\* for it, nothing delivered before is taken back, and from then on no step
\* is delivered, completion is not signalled and no request is issued.
C13_FailureStopsFetch ==
    /\ [](iFailed => (iInflight = <<>> /\ iPc \notin {"resolved", "chain", "waiting"}))
    /\ [][/\ IsPrefix(iData, iData') /\ IsPrefix(iLog, iLog') /\ iSteps <= iSteps'
          /\ iFailed' => (iSteps' = iSteps /\ iData' = iData /\ iIssued' = iIssued)
          /\ iFailed => UNCHANGED iLog]_vars

C13_Witness ==
    /\ iFailed
    /\ iFault = "transport"
    /\ Len(Steps) >= 2
    /\ iLog[Len(iLog)].ev = "rejected"

\* the remaining pages of the first document of getAll
RemainingPages == pages(fromMeta(bFirstDoc.meta), Len(bFirstDoc.data.items))

\* C14: in getAll the requests for the remaining pages are exactly the pages
\* enumerated from the first response, all of them are issued before the
\* response of any of them is consumed, and no response changes them.
C14_AllIssuedAtOnce ==
    /\ []((bPc = "rest" \/ Len(bReqs) > 0) =>
            (bReqs = RemainingPages /\ Len(bOut) = Len(bReqs)))
    /\ [][bArrival' # bArrival => (bArrival = <<>> => bReqs = RemainingPages) /\ bReqs' = bReqs]_vars

C14_Witness ==
    /\ bPc = "rest"
    /\ Len(bReqs) >= 2
    /\ bArrival = <<2>>
    /\ bOut[1] = Pending

\* C15: getAll hands no document to the caller before it resolves; when it
\* is resolved every remaining page request has been answered successfully
\* and its document holds the data of the first page and of every remaining
\* page; when a page request failed it is rejected and hands over nothing.
C15_NoPartialAggregate ==
    /\ bPc # "resolved" => bResult = Undef
    /\ bPc = "resolved" =>
         /\ ~bFailed
         /\ \A i \in 1..Len(bReqs) : bOut[i] # Pending /\ bOut[i].ok
         /\ Len(bResult.data.items) =
                Len(bFirstDoc.data.items) + Len(RestData)
         /\ \A i \in 1..Len(bReqs) : \A k \in 1..Len(bOut[i].value.data.items) :
                \E m \in 1..Len(bResult.data.items) :
                    bResult.data.items[m] = bOut[i].value.data.items[k]
    /\ bFailed => bPc = "rejected"

C15_Witness ==
    /\ bPc = "resolved"
    /\ Len(bReqs) >= 2
    /\ Len(bResult.data.items) >= Len(bFirstDoc.data.items) + 2
    /\ bResult.included # Undef

\* the first response of getAll was wrapped and either carries no pagination
\* or its window reaches the count: offset + items retrieved = count
FirstPageCovers ==
    /\ bFirstDoc # Undef
    /\ LET p == fromMeta(bFirstDoc.meta) IN
         \/ p = Undef
         \/ /\ p # TypeError
            /\ bFirstDoc.data # Undef
            /\ JsStrictEq(JsAdd(p.offset, Num(Len(bFirstDoc.data.items))), p.count)

C17_AdvanceContract ==
    (pgCall.fn = "advance" /\ (pgCall.limit = Undef \/ pgCall.limit.num > 0)) =>
        /\ pgCall.out = Undef <=> pgP.offset.num + pgCall.by = pgP.count.num
        /\ pgCall.out # Undef =>
             /\ pgCall.out.offset = Num(pgP.offset.num + pgCall.by)
             /\ pgCall.out.limit = IF pgCall.limit # Undef THEN pgCall.limit ELSE pgP.limit
             /\ pgCall.out.count = pgP.count

C17_Witness ==
    /\ pgCall.fn = "advance"
    /\ pgCall.limit # Undef
    /\ pgCall.out # Undef
    /\ pgCall.out.limit # pgP.limit
    /\ pgCall.out.offset.num > pgP.count.num

\* C18: every partial pagination pages() produces has the limit of the
\* complete pagination it was generated from, and the request built from it
\* carries that limit as its page[limit] parameter.
C18_PagesKeepLimit ==
    pgCall.fn = "pages" =>
        \A i \in 1..Len(pgCall.out) :
            /\ pgCall.out[i].limit = pgP.limit
            /\ pgCall.out[i].params.limit = toString(pgP.limit)

\* C19: pages(p, retrieved) returns n partial paginations, n the least
\* natural number with n * limit >= count - retrieved (the ceiling of
\* (count - retrieved) / limit, or none when that is not positive), and the
\* i-th of them (i = 0..n-1) starts at offset + retrieved + i * limit.
C19_PagesCountAndStarts ==
    pgCall.fn = "pages" =>
        LET n == Len(pgCall.out)
            left == pgP.count.num - pgCall.retrieved IN
        /\ n * pgP.limit.num >= left
        /\ n > 0 => (n - 1) * pgP.limit.num < left
        /\ \A i \in 0..(n - 1) :
              pgCall.out[i + 1].offset =
                  Num(pgP.offset.num + pgCall.retrieved + i * pgP.limit.num)

C19_Witness ==
    /\ pgCall.fn = "pages"
    /\ Len(pgCall.out) >= 2
    /\ pgP.offset.num > 0
    /\ (pgP.count.num - pgCall.retrieved) % pgP.limit.num # 0

\* C20: when the server reports a count of 0, pages() yields no page and
\* getAll resolves with the empty first document after its one request;
\* getAllIncremental over an empty collection sends one request, delivers
\* one step with empty data and then signals completion.
C20_EmptyCollection ==
    /\ (bFirstDoc # Undef /\ bFault = "honest"
          /\ bFirstDoc.meta.pagination.count = Num(0)) =>
            /\ pages(fromMeta(bFirstDoc.meta), 0) = <<>>
            /\ bReqs = <<>>
            /\ bPc = "resolved"
            /\ bResult = bFirstDoc /\ bResult.data = Arr(<<>>)
    /\ (srvCount0 = 0 /\ iClean /\ iPc \notin {"init", "waiting"}) =>
            /\ iPc = "resolved"
            /\ iIssued = 1 /\ iInflight = <<>>
            /\ iSteps = 1 /\ iData = <<>>
            /\ iLog = <<Requested(pagination(Num(0), Undef)),
                        [ev |-> "response", ok |-> TRUE],
                        [ev |-> "step", offset |-> Num(0), size |-> 0],
                        [ev |-> "resolved"]>>

C20_Witness ==
    /\ mode = "both"
    /\ srvCount0 = 0
    /\ bPc = "resolved" /\ bReqs = <<>>
    /\ iPc = "resolved" /\ iSteps = 1


(***************************************************************************)
(* Merging and combining pages.                                            *)
(***************************************************************************)
\* the elements of an array field, none when the field is absent
Items(x) == IF x = Undef THEN <<>> ELSE x.items

Ran(call) == "out" \in DOMAIN call

\* the data and the included of a combine outcome, nothing when it threw
CombinedData == IF mCombined.out.ok THEN Items(mCombined.out.value.data) ELSE Undef
CombinedIncluded == IF mCombined.out.ok THEN Items(mCombined.out.value.included) ELSE Undef

\* C21: merging B into A gives data = A.data ++ B.data and included =
\* A.included ++ B.included, nothing dropped and nothing deduplicated, an
\* absent data or included counting as an empty list; and combine over the
\* list [A, B] of raw pages gives the same.
C21_MergeAndCombineConcatenate ==
    /\ Ran(mLeft) =>
         /\ Items(mLeft.two.data) = Items(mPages[1].data) \o Items(mPages[2].data)
         /\ Items(mLeft.two.included)
              = Items(mPages[1].included) \o Items(mPages[2].included)
    /\ (Ran(mCombined) /\ mCombined.n = 2) =>
         /\ mCombined.out.ok
         /\ CombinedData = Items(mPages[1].data) \o Items(mPages[2].data)
         /\ CombinedIncluded = Items(mPages[1].included) \o Items(mPages[2].included)

\* the part of C21 about merge alone
C21_MergeConcatenates ==
    Ran(mLeft) =>
      /\ Items(mLeft.two.data) = Items(mPages[1].data) \o Items(mPages[2].data)
      /\ Items(mLeft.two.included)
           = Items(mPages[1].included) \o Items(mPages[2].included)
      /\ Len(Items(mLeft.two.included))
           = Len(Items(mPages[1].included)) + Len(Items(mPages[2].included))

\* every page has a data array and the first page has an included array
Combinable ==
    /\ \A k \in 1..3 : mPages[k].data # Undef
    /\ mPages[1].included # Undef

C23_CombineLeavesInputs ==
    Ran(mCombined) =>
      /\ mCombined.pages = SubSeq(mPages, 1, mCombined.n)
      /\ mCombined.n >= 1 => mCombined.first = mPages[1]

(***************************************************************************)
(* Wrapping through the registries.                                        *)
(***************************************************************************)
\* the type-level factory registered for the type of an element, if any
TypeFactory(r) ==
    IF registered[r.type] = Undef THEN Undef ELSE registered[r.type].factory

\* the factory registered for the view of an element, if any
ViewFactory(r) ==
    IF r.view = Undef \/ registered[r.type] = Undef THEN Undef
    ELSE IF registered[r.type].factoryByView = Undef THEN Undef
    ELSE registered[r.type].factoryByView.map[r.view]

\* the registry holds a factory that applies to the element
HasFactory(r) == IF r.view = Undef THEN TypeFactory(r) # Undef ELSE ViewFactory(r) # Undef

\* the positions of an array field whose element has no factory
Missing(field) == {i \in 1..Len(Items(field)) : ~HasFactory(field.items[i])}
MissingLegacy(field) ==
    {i \in 1..Len(Items(field)) : field.items[i].type \notin legacyRegistered}

\* every element of a raw array field has its model at the same position
AllWrapped(rawField, field) ==
    IF rawField = Undef THEN field = Undef
    ELSE /\ field # Undef
         /\ Len(field.items) = Len(rawField.items)
         /\ \A i \in 1..Len(rawField.items) : field.items[i].resource = rawField.items[i]

DocumentWraps == {"ReadManyDocument.wrap", "new Document"}

C25_ViewThenTypeFallback ==
    wCall.fn = "wrap" =>
      /\ ViewFactory(wCall.resource) # Undef
           => /\ wCall.out.ok
              /\ wCall.out.value.by = ViewFactory(wCall.resource)
      /\ (ViewFactory(wCall.resource) = Undef /\ TypeFactory(wCall.resource) # Undef)
           => /\ wCall.out.ok
              /\ wCall.out.value.by = TypeFactory(wCall.resource)

\* C25 amended: an element with view v whose type has a factory for v is
\* wrapped by that factory; an element with no view is wrapped by the
\* type-level factory of its type; an element with a view that has no factory
\* is not wrapped at all, whether or not its type has a type-level factory.
C25_ViewOrTypeNoFallback ==
    wCall.fn = "wrap" =>
      /\ ViewFactory(wCall.resource) # Undef
           => /\ wCall.out.ok
              /\ wCall.out.value.by = ViewFactory(wCall.resource)
              /\ wCall.out.value.resource = wCall.resource
      /\ (wCall.resource.view = Undef /\ TypeFactory(wCall.resource) # Undef)
           => /\ wCall.out.ok
              /\ wCall.out.value.by = TypeFactory(wCall.resource)
              /\ wCall.out.value.resource = wCall.resource
      /\ (wCall.resource.view # Undef /\ ViewFactory(wCall.resource) = Undef)
           => ~wCall.out.ok

\* an element with a view, of a type that has a type-level factory but none
\* for the view
C25_Witness ==
    /\ wCall.fn = "wrap"
    /\ wCall.resource.view # Undef
    /\ ViewFactory(wCall.resource) = Undef
    /\ TypeFactory(wCall.resource) # Undef
    /\ ~wCall.out.ok

\* C26: wrapping an element whose type has no registry entry, or whose view
\* has no factory bound to it, raises an error instead of returning a resource.
C26_DispatchMissIsFatal ==
    wCall.fn = "wrap" =>
      /\ registered[wCall.resource.type] = Undef
           => /\ ~wCall.out.ok
              /\ wCall.out.reason = NoFactory(wCall.resource)
      /\ (wCall.resource.view # Undef /\ ViewFactory(wCall.resource) = Undef)
           => /\ ~wCall.out.ok
              /\ wCall.out.reason = NoFactory(wCall.resource)
      /\ ~HasFactory(wCall.resource) => ~wCall.out.ok

\* a miss by view on a type that has an entry, after a miss by type was possible
C26_Witness ==
    /\ wCall.fn = "wrap"
    /\ ~wCall.out.ok
    /\ wCall.resource.view # Undef
    /\ registered[wCall.resource.type] # Undef
    /\ \E t \in WireTypes : registered[t] = Undef

(***************************************************************************)
(* Status codes of the single-request operations.                          *)
(***************************************************************************)
\* the response of the last operation arrived
Answered == opCall.fn \notin {"none", "idle"} /\ opCall.response.transport

\* the success statuses of each operation according to the specification
Accepted ==
    [getMany |-> {StatusOk}, getOne |-> {StatusOk}, create |-> {StatusCreated},
     update |-> {StatusOk, StatusCreated}, delete |-> {StatusNoContent}]

\* C27: a response with a status the operation does not accept and a
\* non-empty errors array makes the operation reject with exactly that array.
C27_RejectsWithErrors ==
    (/\ Answered
     /\ opCall.response.status \notin Accepted[opCall.fn]
     /\ opCall.response.document.errors # Undef
     /\ opCall.response.document.errors.items # <<>>)
    => opCall.out = Rejected(opCall.response.document.errors)

C27_Witness ==
    /\ Answered
    /\ opCall.fn = "update"
    /\ opCall.response.status = 404
    /\ opCall.response.document.errors # Undef
    /\ Len(opCall.response.document.errors.items) = MaxErrors
    /\ opCall.out = Rejected(opCall.response.document.errors)

\* C28: a response with a status the operation does not accept and no errors
\* array makes the operation reject with a defined failure value, never with
\* undefined.
C28_GenericFailureDefined ==
    (/\ Answered
     /\ opCall.response.status \notin Accepted[opCall.fn]
     /\ opCall.response.document.errors = Undef)
    => /\ ~opCall.out.ok
       /\ opCall.out.reason # Undef

\* the part of C29 that leaves update aside
C29_AcceptedStatusesButUpdate ==
    (Answered /\ opCall.fn # "update") =>
      (opCall.out.ok <=> opCall.response.status \in Accepted[opCall.fn])

\* C29: an operation answered with one of its accepted statuses (200 for
\* getMany and getOne, 201 for create, 200 or 201 for update, 204 for delete)
\* resolves, and answered with any other status it rejects.
C29_AcceptedStatuses ==
    Answered =>
      (opCall.out.ok <=> opCall.response.status \in Accepted[opCall.fn])

(***************************************************************************)
(* Optional relationships.                                                 *)
(***************************************************************************)
\* C30: relateOneOptional on a relationship whose data is null does nothing:
\* no lookup in the map, no callback, no error, and the data is still null;
\* null stays apart from a Reference that is present, resolved or not.
C30_AbsentOptionalIsNoOp ==
    /\ []((lastOp.name = "relateOneOptional" /\ rel.data = Null)
            => /\ lastOp.lookups = 0
               /\ cbArgs = <<>>
               /\ err = "none")
    /\ []((rel.kind = "optional" /\ rel.data # Null)
            => /\ DOMAIN rel.data = {"id", "type", "resource"}
               /\ lastOp.name = "relateOneOptional" => lastOp.lookups = 1)
    /\ [][(rel.kind = "optional" /\ rel.data = Null) => rel' = rel]_vars

\* relateOneOptional was called with a callback on an absent Reference, against
\* a map that holds resources
C30_Witness ==
    /\ lastOp.name = "relateOneOptional"
    /\ lastOp.cb
    /\ rel.data = Null
    /\ inserted > 0
    /\ resolves = 2

(***************************************************************************)
(* Cardinality of documents.                                               *)
(***************************************************************************)
\* an array, possibly empty
IsArray(x) == DOMAIN x = {"items"}

\* one wrapped resource
IsSingle(x) == "resource" \in DOMAIN x /\ "items" \notin DOMAIN x

\* C31: through every sequence of wraps and merges the data of a
\* Many-document is an array (possibly empty) or absent, and the data of a
\* One-document is a single resource or absent.
C31_CardinalityFixed ==
    /\ doc.cardinality = "many" => (doc.data = Undef \/ IsArray(doc.data))
    /\ doc.cardinality = "one" => (doc.data = Undef \/ IsSingle(doc.data))

\* a collection document that started without data and was given arrays by
\* merges
C31_Witness ==
    /\ doc.cardinality = "many"
    /\ doc.merges = MaxMerges
    /\ doc.data # Undef
    /\ Len(doc.data.items) = 1
    /\ doc.included = Undef

(***************************************************************************)
(* Combining parameters.                                                   *)
(***************************************************************************)
\* the names a parameter map has an entry for
Keys(m) == {k \in ParamKeys : m[k] # Undef}

\* C32: this.with(other) returns a map with every key of this and of other,
\* a key of both taking the value of other, and changes neither this nor
\* other; so in q.with(p) the page[offset] and page[limit] of the pagination
\* p override what the query q had for them.
C32_WithOverlays ==
    pwCall.fn \in {"with", "getMany"} =>
      /\ Keys(pwCall.out.result) = Keys(pwCall.this) \cup Keys(pwCall.other)
      /\ \A k \in Keys(pwCall.other) : pwCall.out.result[k] = pwCall.other[k]
      /\ \A k \in Keys(pwCall.this) \ Keys(pwCall.other) :
            pwCall.out.result[k] = pwCall.this[k]
      /\ pwCall.out.this = pwCall.this
      /\ pwCall.out.other = pwCall.other
      /\ pwCall.fn = "getMany" =>
            /\ pwCall.out.result[formatPageField("offset")] = toString(pwCall.p.offset)
            /\ JsTruthy(pwCall.p.limit) =>
                  pwCall.out.result[formatPageField("limit")] = toString(pwCall.p.limit)

\* a query that already had other values for both page parameters
C32_Witness ==
    /\ pwCall.fn = "getMany"
    /\ pwCall.p.limit # Undef
    /\ JsTruthy(pwCall.p.limit)
    /\ pwCall.this[formatPageField("offset")] \notin {Undef, toString(pwCall.p.offset)}
    /\ pwCall.this[formatPageField("limit")] \notin {Undef, toString(pwCall.p.limit)}
    /\ pwCall.this["sort"] # Undef

(***************************************************************************)
(* Windows that start beyond the collection.                               *)
(***************************************************************************)
\* a first page of the size the server reports can hold at most the items
\* from its offset to the count, and at most limit of them
HonestSize(p, n) == n <= Min(p.limit.num, p.count.num - p.offset.num)

\* getAll calls pages() only for a first page that does not start at the count
Remaining(p) == p.offset.num < p.count.num

\* C33: no request after the first is for a window that starts at or beyond
\* the count: every pagination pages() produces from a first page, and every
\* pagination advance() produces, has offset < count, whatever the offset of
\* the first page, the limit and the size of the page.
C33_NoRequestBeyondCount ==
    /\ (pgCall.fn = "pages" /\ Remaining(pgP) /\ HonestSize(pgP, pgCall.retrieved))
         => \A i \in 1..Len(pgCall.out) : pgCall.out[i].offset.num < pgP.count.num
    /\ (pgCall.fn = "advance" /\ HonestSize(pgP, pgCall.by) /\ pgCall.out # Undef)
         => pgCall.out.offset.num < pgP.count.num

\* the part of C33 that holds: first pages at offset 0, and advance
C33_NoRequestBeyondCountFromZero ==
    /\ (pgCall.fn = "pages" /\ Remaining(pgP) /\ HonestSize(pgP, pgCall.retrieved)
          /\ pgP.offset.num = 0)
         => \A i \in 1..Len(pgCall.out) : pgCall.out[i].offset.num < pgP.count.num
    /\ (pgCall.fn = "advance" /\ HonestSize(pgP, pgCall.by) /\ pgCall.out # Undef)
         => pgCall.out.offset.num < pgP.count.num



\* positions of the terminal signals (resolve or reject) in the log
Terminals == {j \in 1..Len(iLog) : iLog[j].ev \in {"resolved", "rejected"}}

\* offset of the request sent last before position j of the log
RECURSIVE LastRequested(_)
LastRequested(j) ==
    IF j = 0 THEN Undef
    ELSE IF iLog[j].ev = "request" THEN iLog[j].offset
    ELSE LastRequested(j - 1)

\* C34: an orchestration of getAllIncremental signals at most one terminal
\* outcome (never resolve and reject, never resolve twice); the terminal
\* signal is the last thing the caller sees (no step and no request after it,
\* no response still awaited); completion is signalled only directly after
\* the step for the page requested last, with every requested page stepped.
C34_OneTerminalOutcome ==
    /\ Cardinality(Terminals) <= 1
    /\ \A j \in Terminals : j = Len(iLog)
    /\ iPc \in {"resolved", "rejected"} => iInflight = <<>>
    /\ (iPc \in {"resolved", "rejected"} /\ iIssued < MaxSteps) =>
            (Terminals # {} /\ iLog[Len(iLog)].ev = iPc)
    /\ Terminals # {} => iPc = iLog[Len(iLog)].ev
    /\ \A j \in Terminals :
          iLog[j].ev = "resolved" =>
              /\ j > 1
              /\ iLog[j - 1].ev = "step"
              /\ iLog[j - 1].offset = LastRequested(j)
              /\ CountEv(iLog, "step", j) = CountEv(iLog, "request", j)

C34_Witness ==
    /\ iPc = "rejected"
    /\ Len(iLog) >= 2
    /\ iLog[Len(iLog)].ev = "rejected"
    /\ iLog[Len(iLog) - 1].ev = "step"
    /\ CountEv(iLog, "request", Len(iLog)) >= 2


\* the paginations the page machine holds: the first page's, and those
\* returned by advance and pages
Paginations ==
    {pgP, pgCur}
    \cup {pgPages[i] : i \in 1..Len(pgPages)}
    \cup {pgChain[i] : i \in 1..Len(pgChain)}
    \cup (IF pgCall.fn = "pages" THEN {pgCall.out[i] : i \in 1..Len(pgCall.out)}
          ELSE IF pgCall.fn = "advance" /\ pgCall.out # Undef THEN {pgCall.out}
          ELSE {})

\* the parameter page[offset] of p is its offset
OffsetAgrees(p) == p.params.offset = toString(p.offset)

\* when the limit of p is set, the parameter page[limit] is that limit
LimitAgrees(p) == p.limit # Undef => p.params.limit = toString(p.limit)

\* C35: the request parameters of every pagination agree with its fields:
\* page[offset] is the offset and, when the limit field is set, page[limit]
\* is present and is that limit.
C35_ParametersAgree == \A p \in Paginations : OffsetAgrees(p) /\ LimitAgrees(p)

\* what holds of the parameters: page[offset] is always the offset, a
\* pagination with a count (a DocumentPagination) has no page[limit], and
\* one without a limit has none either
C35_OffsetAgreesNoLimitIfCounted ==
    \A p \in Paginations :
        /\ OffsetAgrees(p)
        /\ p.count # Undef => (p.limit # Undef /\ p.params.limit = Undef)
        /\ p.limit = Undef => p.params.limit = Undef


\* the documents merged into A so far
MergedNames == {mHeap.merged[k] : k \in 1..Len(mHeap.merged)}

\* C36: merge modifies only the receiver: a document that was merged into A
\* holds, after any further merges into A, the data and included it held
\* before it was merged, also when A's data or included was absent then.
C36_MergeLeavesOther ==
    \A other \in MergedNames : Snapshot(mHeap, other) = mHeap.before[other]

\* a merged document's field is unchanged as long as the receiver's field is
\* an array of its own, and one the receiver took over changes with it
C36_MergeLeavesOtherUnlessShared ==
    \A other \in MergedNames :
        /\ mHeap.docs["A"].data # mHeap.docs[other].data
              => Snapshot(mHeap, other).data = mHeap.before[other].data
        /\ mHeap.docs["A"].included # mHeap.docs[other].included
              => Snapshot(mHeap, other).included = mHeap.before[other].included
        /\ Snapshot(mHeap, other).data # Undef =>
              Snapshot(mHeap, "A").data # Undef
        /\ (mHeap.docs["A"].data = mHeap.docs[other].data /\ mHeap.docs[other].data # Undef)
              => Snapshot(mHeap, other).data = Snapshot(mHeap, "A").data


\* what get returns for identity x
Lookup(c, x) == get(c, Reference(x[2], x[1], Null))

ResourceLists == {New(x) : x \in IdentityLists}

\* every resource of the list has the type of the first
SameType(l) == \A k \in 1..Len(l) : l[k].type = l[1].type

\* the map c1 that an insertion of l into c left: every resource of l is
\* found under its own identity (the last one of an identity wins) and the
\* other identities, those of other types included, are as in c
FiledUnderOwnIdentity(c, l, c1) ==
    \A x \in Identities :
        Lookup(c1, x) = Inserted([y \in Identities |-> Lookup(c, y)], l)[x]

\* C38: putAllOfType(resources) leaves the map in the state putAll(resources)
\* leaves it in, for every list of resources: each resource is retrievable
\* under its own (type, id) and under no other type.
C38_PutAllOfTypeAsPutAll ==
    \A l \in ResourceLists :
        /\ putAllOfType(caches, l) = putAll(caches, Arr(l))
        /\ FiledUnderOwnIdentity(caches, l, putAllOfType(caches, l))

\* the same for the lists whose resources have one type
C38_PutAllOfTypeAsPutAllSameType ==
    \A l \in ResourceLists :
        SameType(l) =>
            /\ putAllOfType(caches, l) = putAll(caches, Arr(l))
            /\ FiledUnderOwnIdentity(caches, l, putAllOfType(caches, l))
            /\ FiledUnderOwnIdentity(caches, l, putAll(caches, Arr(l)))

\* putAllOfType has stored a list of one type in a map that held the other
\* type, and lists of one type with two resources can still be inserted
C38_Witness ==
    /\ lastOp.name = "putAllOfType"
    /\ homog
    /\ inserted >= 1
    /\ IsResource(Lookup(caches, <<"authors", 1>>))
    /\ Lookup(caches, <<"authors", 1>>).object = inserted
    /\ \E l \in ResourceLists : Len(l) >= 2 /\ SameType(l)


\* C39: after rewrap(relationship) a relationship is what wrap(relationship)
\* constructs: its data are the references of the wire data, its links the
\* wire links or null, its meta the wire meta or null.
C39_RewrapAsWrap ==
    rsCall.fn = "rewrap" => rsCall.rel = RelationshipWrap(rsCall.kind, rsCall.wire)

\* after rewrap the data and the meta are those wrap constructs, and the
\* links are the wire meta or null
C39_RewrapDataAndMetaAsWrap ==
    rsCall.fn = "rewrap" =>
        /\ rsCall.rel.data = RelationshipWrap(rsCall.kind, rsCall.wire).data
        /\ rsCall.rel.meta = RelationshipWrap(rsCall.kind, rsCall.wire).meta
        /\ rsCall.rel.links = RelationshipWrap(rsCall.kind, rsCall.wire).meta


\* a relationship that had links was refreshed from a wire relationship
\* with links and without meta
C39_LinksLost ==
    /\ rsCall.fn = "rewrap"
    /\ rsCall.wire.links # Undef
    /\ rsCall.wire.meta = Undef
    /\ rsCall.rel.links = Null

==============================================================================
